---------------------------- MODULE Spec2Model ----------------------------
(***************************************************************************)
(* A model of the relay core of shadowsocks-go: the session-based UDP      *)
(* relay (service/udp_session.go) and the TCP relay (service/tcp.go).      *)
(*                                                                         *)
(* The UDP relay is one receive loop, two workers per NAT session and the  *)
(* Stop method, sharing the session table, its mutex and the wait-group.   *)
(* Every packet buffer the receive loop takes from packetBufPool is named  *)
(* by the number of the loop iteration that took it.                       *)
(***************************************************************************)
EXTENDS Integers, Sequences, FiniteSets, TLC

\* ------------------------------------------------------------------ bounds

\* Datagrams (and read errors) that serverConn delivers in a run of the relay that
\* is stopped at some point. The receive loop takes one buffer from the pool for
\* each, and one more for the read it is blocked in afterwards.
MaxPkts == 3

\* Capacity of a session's send channel (the package constant of that name).
sendChannelCapacity == 2

\* Datagrams delivered in a run of the relay that is not stopped: enough to fill
\* the send channel of one session, overflow it, and serve another session.
RunPkts == sendChannelCapacity + 2

\* Client session IDs that SessionInfo can return.
CSIDs == {1, 2}

\* Session objects created over a run: as many as there are client session IDs.
MaxSessions == Cardinality(CSIDs)

Pkts == 1..(RunPkts + MaxPkts + 1)
Sessions == 1..MaxSessions

NoSession == 0
NoPkt == 0

\* Client addresses (address and port) datagrams come from; the zero AddrPort.
Addrs == {1, 2}
NoAddr == 0

\* Socket control messages (IP_PKTINFO) read with a datagram; none.
Oobs == {1, 2}
NoOob == 0

\* What ReadMsgUDPAddrPort returns beside the packet.
Source(a, o) == [addr |-> a, oob |-> o]

NoSource == Source(NoAddr, NoOob)

\* A reply of session s written to serverConn, addressed with the address words of
\* one netip.AddrPort value and the port word of another (the same, unless the value
\* was read while it was being stored).
Reply(s, ip, port) == [sess |-> s, ip |-> ip, port |-> port]

NoReply == Reply(NoSession, NoAddr, NoAddr)

\* A client that stays at one address.
HomeSources == {Source(a, a) : a \in {CHOOSE x \in Addrs : TRUE}}

\* Clients that change address, and with it the interface their datagrams reach.
RoamSources == {Source(a, a) : a \in Addrs \cap Oobs}

\* Datagrams delivered in a run with roaming clients: a session is created, found
\* again, and found once more.
AddrPkts == Cardinality(CSIDs) + 1

\* ------------------------------------------------------------------ state

VARIABLES
    serverConnClosed,   \* s.serverConn has been closed
    mu,                 \* holder of s.mu: <<"free",0>>, <<"recv",0>>, <<"stop",0>>, <<"down",s>>
    wg,                 \* counter of s.wg
    table,              \* s.table: csid -> session (NoSession: no entry)
    nsess,              \* session objects allocated so far
    sessCsid,           \* the csid a session was created for
    natConnSendCh,      \* entry.natConnSendCh: the buffered packets, oldest first
    chClosed,           \* entry.natConnSendCh is closed
    chCloses,           \* times close(entry.natConnSendCh) ran (2: twice or more)
    natConnClosed,      \* entry.natConn is closed
    deadline,           \* read deadline of entry.natConn: "unset", "natTimeout", "now"
    downPc,             \* downstream worker: "none","run","lock","delete","done","exited"
    downExit,           \* why the downstream worker left its loop: "none","deadline","closed"
    upPc,               \* upstream worker: "none","recv","done","exited"
    taken,              \* the packet the upstream worker received from the channel last
    written,            \* the packet written to entry.natConn last (NoPkt: none yet)
    fullDrops,          \* packets of the session dropped because its channel was full
    recvPc,             \* receive loop: "get","read","lock" (a datagram is read),"exited"
    recvBuf,            \* the buffer the receive loop holds (NoPkt: none)
    recvCsid,           \* csid of the datagram being processed
    recvResult,         \* outcome of the iteration just finished ("none" while one runs)
    arrivals,           \* datagrams (and read errors) serverConn has yet to deliver
    nborrow,            \* buffers taken from packetBufPool so far
    puts,               \* per buffer: times it was put back into packetBufPool (2: twice or more)
    stopPc,             \* Stop: "idle","sweep","wait","returned"
    faults,             \* run-time panics and misuse that happened
    sources,            \* the client addresses and control bytes datagrams arrive with
    recvFrom,           \* clientAddrPort and oobBuf[:oobn] of the datagram being processed
    clientAddrPort,     \* entry.clientAddrPort
    clientOobCache,     \* entry.clientOobCache
    replyTo,            \* the reply written to serverConn last: its session and client address
    unowned             \* open sockets ListenUDP returned that no session holds

udpVars == <<serverConnClosed, mu, wg, table, nsess, sessCsid, natConnSendCh, chClosed,
             chCloses, natConnClosed, deadline, downPc, downExit, upPc, taken, written,
             fullDrops, recvPc, recvBuf, recvCsid, recvResult, arrivals, nborrow, puts, stopPc, faults,
             sources, recvFrom, clientAddrPort, clientOobCache, replyTo, unowned>>

\* ------------------------------------------------------------------ TCP relay state

\* The TCP connections accepted over a run. Handlers share nothing but the listener.
Conns == {1, 2}

MaxConns == Cardinality(Conns)

\* Bytes the server framing's Accept can surface as initial payload, and bytes one
\* ReadZeroCopy of the initial-payload wait can return.
MaxPayload == 2

VARIABLES
    waitForInitialPayload,  \* s.waitForInitialPayload
    framing,                \* what clientRW reports: front, rear headroom, MinPayloadBufferSizePerRead
    listenerClosed,         \* s.listener has been closed
    acceptPc,               \* the accept loop: "run", "exited"
    conns                   \* per connection: the state of its handleConn

tcpVars == <<waitForInitialPayload, framing, listenerClosed, acceptPc, conns>>

\* ------------------------------------------------------- credential manager

\* Calls of the management API (and of Start, Stop, LoadFromFile) and edits of the
\* credential file made over a run.
MaxCalls == 2

\* The goroutines that call into the ManagedServer.
Callers == {1, 2}

\* The uPSKs of length pskLength that callers and files use.
MaxPsk == 2

\* A uPSK whose length is not pskLength.
ShortPsk == 0

PSKs == 1..MaxPsk

AllPsks == PSKs \cup {ShortPsk}

\* The usernames callers and files use; "" is the empty username.
Usernames == {"", "a", "b"}

VARIABLES
    file,                 \* the content of the file at s.path
    cachedContent,        \* s.cachedContent
    cachedCredMap,        \* s.cachedCredMap: username -> cachedUserCredential
    cachedUserLookupMap,  \* s.cachedUserLookupMap: identity hash -> cipher config
    tcpULM,               \* the user lookup map of s.tcp
    udpULM,               \* the user lookup map of s.udp
    credMu,               \* s.mu: <<"free", 0>> or <<"held", c>>, write-locked by caller c
    saveQueue,            \* tokens in s.saveQueue (capacity 1)
    done,                 \* s.done is closed
    credWg,               \* counter of s.wg
    savePc,               \* dequeueSave: "none", "wait", "cooldown", "drain", "write", "exited"
    started,              \* Start was called
    callers,              \* per caller: the call it is in
    credCalls             \* calls that can still be made

credVars == <<file, cachedContent, cachedCredMap, cachedUserLookupMap, tcpULM, udpULM,
              credMu, saveQueue, done, credWg, savePc, started, callers, credCalls>>

\* ------------------------------------------------- upstream target addresses

\* Packets queued for one session's upstream worker over its life.
MaxTargets == 3

\* Times the resolver's answer for a domain name changes while the worker runs.
MaxDnsChanges == 1

\* Domain names that targets name.
Domains == {1, 2}

\* A socks5.Addr: an IP address and port (literal), or a domain name and port.
TargetAddr(isDomain, id) == [domain |-> isDomain, id |-> id]

Targets == {TargetAddr(FALSE, a) : a \in Addrs} \cup {TargetAddr(TRUE, n) : n \in Domains}

\* The nil socks5.Addr.
NoTarget == TargetAddr(FALSE, NoAddr)

VARIABLES
    natConnUseFixedTargetAddrPort,  \* entry.natConnUseFixedTargetAddrPort
    natConnFixedTargetAddrPort,     \* entry.natConnFixedTargetAddrPort
    targetQueue,                    \* targetAddr of the packets in entry.natConnSendCh, oldest first
    cachedTargetAddr,               \* the worker's cachedTargetAddr
    cachedTargetAddrPort,           \* the worker's cachedTargetAddrPort
    dns,                            \* what resolving each domain name yields now (NoAddr: an error)
    dnsChanges,                     \* changes of dns still to come
    resolutions,                    \* calls of targetAddr.AddrPort made so far
    resolvedAs,                     \* per target: what the worker's last resolution of it returned
    sent                            \* the packet handled last: its target, outcome and destination

targetVars == <<natConnUseFixedTargetAddrPort, natConnFixedTargetAddrPort, targetQueue,
                cachedTargetAddr, cachedTargetAddrPort, dns, dnsChanges, resolutions,
                resolvedAs, sent>>

\* The state of the other services.
otherVars == <<tcpVars, credVars, targetVars>>

vars == <<udpVars, otherVars>>

Free == <<"free", 0>>
ByRecv == <<"recv", 0>>
ByStop == <<"stop", 0>>
ByDown(s) == <<"down", s>>

\* The steps of the miss path that can fail, in the order of the code.
MissSteps == <<"NewUnpacker", "UnpackInPlace", "GetUDPClient", "NewSession", "NewPacker",
               "ListenUDP", "SetReadDeadline">>

MissFailures == {MissSteps[i] : i \in 1..Len(MissSteps)}

\* How the upstream worker's handling of one queued packet can end.
UpOutcomes == {"packErr", "resolveErr", "writeErr", "written"}

Min(a, b) == IF a < b THEN a ELSE b

\* ------------------------------------------------------------ Init

UDPInitFrom(n, from) ==
    /\ arrivals = n
    /\ sources = from
    /\ recvFrom = NoSource
    /\ replyTo = NoReply
    /\ unowned = 0
    /\ clientAddrPort = [s \in Sessions |-> NoAddr]
    /\ clientOobCache = [s \in Sessions |-> NoOob]
    /\ serverConnClosed = FALSE
    /\ mu = Free
    /\ wg = 0
    /\ table = [c \in CSIDs |-> NoSession]
    /\ nsess = 0
    /\ sessCsid = [s \in Sessions |-> 0]
    /\ natConnSendCh = [s \in Sessions |-> <<>>]
    /\ chClosed = [s \in Sessions |-> FALSE]
    /\ chCloses = [s \in Sessions |-> 0]
    /\ natConnClosed = [s \in Sessions |-> FALSE]
    /\ deadline = [s \in Sessions |-> "unset"]
    /\ downPc = [s \in Sessions |-> "none"]
    /\ downExit = [s \in Sessions |-> "none"]
    /\ upPc = [s \in Sessions |-> "none"]
    /\ taken = [s \in Sessions |-> NoPkt]
    /\ written = [s \in Sessions |-> NoPkt]
    /\ fullDrops = [s \in Sessions |-> 0]
    /\ recvPc = "get"
    /\ recvBuf = NoPkt
    /\ recvCsid = 0
    /\ recvResult = "none"
    /\ nborrow = 0
    /\ puts = [p \in Pkts |-> 0]
    /\ stopPc = "idle"
    /\ faults = {}

\* The relay after Start, before it has read a datagram; n datagrams will come.
UDPInit(n) == UDPInitFrom(n, HomeSources)

\* initialPayloadWaitBufferSize
initialPayloadWaitBufferSize == 1280

\* The framings a server can have, by what their ReadWriter reports.
Framings ==
    { [front |-> 0, rear |-> 0, minBuf |-> 0],
      [front |-> 2, rear |-> 1, minBuf |-> 100],
      [front |-> 2, rear |-> 1, minBuf |-> 2000] }

\* A byte slice: zb zero bytes, then the client's bytes data, then za zero bytes.
\* The client's stream is numbered: its i-th byte is i.
Bytes(zb, data, za) == [zb |-> zb, data |-> data, za |-> za]

\* nil, and every empty slice
NoBytes == Bytes(0, <<>>, 0)

\* len(b)
BytesLen(b) == b.zb + Len(b.data) + b.za

\* A connection whose handler has not started.
NoConn ==
    [ pc |-> "none",            \* "none","accepted","hold","wait","dial","relay","returned"
      accepted |-> NoBytes,     \* the initial payload Accept returned
      routed |-> FALSE,         \* s.router.GetTCPClient was called
      holdRead |-> "none",      \* result of the hold's 1-byte read: "byte", "EOF", "error"
      waitEnd |-> "none",       \* how the wait's read ended: "read", "timeout", "error"
      native |-> FALSE,         \* c.NativeInitialPayload()
      payload |-> NoBytes,      \* the handler's variable payload
      waited |-> FALSE,         \* the wait's ReadZeroCopy was performed
      readDeadline |-> "none",  \* the client socket's read deadline: "none", "wait"
      dials |-> 0,              \* calls of c.Dial (2: two or more)
      dialed |-> NoBytes,       \* the payload given to c.Dial
      closerDone |-> FALSE,     \* s.connCloser.Do was invoked
      closed |-> FALSE,         \* clientConn is closed
      outcome |-> "none" ]      \* why the handler returned

TCPInit(waits, framings) ==
    /\ waitForInitialPayload \in waits
    /\ framing \in framings
    /\ listenerClosed = FALSE
    /\ acceptPc = "run"
    /\ conns = [k \in Conns |-> NoConn]

\* The TCP relay not in use.
TCPQuiet == TCPInit({FALSE}, {[front |-> 0, rear |-> 0, minBuf |-> 0]})

\* len(uPSK)
PSKLen(k) == IF k = ShortPsk THEN 16 ELSE 32

\* s.pskLength
pskLength == PSKLen(MaxPsk)

\* ss2022.PSKHash(uPSK): the identity hash of a uPSK.
PSKHash(k) == <<"hash", k>>

Hashes == {PSKHash(k) : k \in AllPsks}

\* &cachedUserCredential{uPSK, uPSKHash}
CachedCred(k, h) == [has |-> TRUE, uPSK |-> k, uPSKHash |-> h]

\* A nil *cachedUserCredential: the username is not in the map.
NoCred == [has |-> FALSE, uPSK |-> ShortPsk, uPSKHash |-> PSKHash(ShortPsk)]

\* ss2022.NewServerUserCipherConfig(username, uPSK, ...): the config of a user,
\* built from the user's key.
CipherConfig(u, k) == [has |-> TRUE, name |-> u, psk |-> k]

\* A nil config: the hash is not in the map.
NoConfig == [has |-> FALSE, name |-> "", psk |-> ShortPsk]

\* A file content: what reading it yields ("unreadable": ReadFile fails;
\* "undecodable": the decoder fails; "object": a JSON object), how it is formatted,
\* and the username/uPSK pairs of the object.
Content(kind, fmt, creds) == [kind |-> kind, fmt |-> fmt, creds |-> creds]

\* json.MarshalIndent of the username -> uPSK map built from m.
Marshal(m) ==
    Content("object", "indent", {<<u, m[u].uPSK>> : u \in {x \in Usernames : m[x].has}})

\* The contents an editor of the file leaves in it.
FileEdits ==
    { Content("object", "edited", {<<"a", 1>>}),
      Content("object", "edited", {<<"a", 1>>, <<"b", 2>>}),
      Content("object", "edited", {<<"a", 1>>, <<"b", 1>>}),
      Content("object", "edited", {<<"a", ShortPsk>>}),
      Content("object", "edited", {<<"", 1>>}),
      Content("undecodable", "edited", {}),
      Content("unreadable", "edited", {}) }

\* A caller that is in no call.
NoCall ==
    [ op |-> "none",        \* "Add", "Update", "Delete", "Get", "Load", "Start", "Stop"
      user |-> "",          \* the username argument
      psk |-> ShortPsk,     \* the uPSK argument; for "Get", the uPSK returned
      content |-> Content("unreadable", "edited", {}),   \* what loadFromFile read
      old |-> PSKHash(ShortPsk),   \* oldUPSKHash, the hash the user had before the call
      ucHash |-> PSKHash(ShortPsk),   \* uc.uPSKHash, read through the call's pointer uc
      linked |-> FALSE,     \* *uc is the credential that s.cachedCredMap holds for user
      pc |-> "idle",        \* "idle", "lock", "enqueue", "tcp", "udp", "replace", "wait", "returned"
      dup |-> FALSE,        \* the uPSK's hash belonged to another user when the lock was taken
      touched |-> FALSE,    \* the call changed the cached or the live maps or cachedContent
      result |-> "none" ]   \* "ok", "missing", "panic", or the error returned

\* The ManagedServer after RegisterServer loaded the file f: n calls can be made.
CredInit(n, f) ==
    /\ file = f
    /\ cachedContent = f
    /\ cachedCredMap = [u \in Usernames |->
            IF \E k \in AllPsks : <<u, k>> \in f.creds
            THEN LET k == CHOOSE x \in AllPsks : <<u, x>> \in f.creds
                 IN  CachedCred(k, PSKHash(k))
            ELSE NoCred]
    /\ cachedUserLookupMap = [h \in Hashes |->
            IF \E e \in f.creds : PSKHash(e[2]) = h
            THEN LET e == CHOOSE x \in f.creds : PSKHash(x[2]) = h
                 IN  CipherConfig(e[1], e[2])
            ELSE NoConfig]
    /\ tcpULM = [h \in Hashes |-> NoConfig]
    /\ udpULM = [h \in Hashes |-> NoConfig]
    /\ credMu = <<"free", 0>>
    /\ saveQueue = 0
    /\ done = FALSE
    /\ credWg = 0
    /\ savePc = "none"
    /\ started = FALSE
    /\ callers = [c \in Callers |-> NoCall]
    /\ credCalls = n

\* The credential manager not in use.
CredQuiet == CredInit(0, Content("object", "indent", {}))

\* What the handling of a packet left behind.
Sent(target, outcome, to) == [target |-> target, outcome |-> outcome, to |-> to]

NoSent == Sent(NoTarget, "none", NoAddr)

\* The upstream worker of a session at its start, with the packets in queues still to
\* come; fixed tells whether c.AddrPort() reported a fixed target.
TargetInit(fixed, queues, changes) ==
    /\ natConnUseFixedTargetAddrPort \in fixed
    /\ natConnFixedTargetAddrPort \in (IF natConnUseFixedTargetAddrPort THEN Addrs ELSE {NoAddr})
    /\ targetQueue \in queues
    /\ cachedTargetAddr = NoTarget
    /\ cachedTargetAddrPort = natConnFixedTargetAddrPort
    /\ dns \in [Domains -> Addrs \cup {NoAddr}]
    /\ dnsChanges = changes
    /\ resolutions = 0
    /\ resolvedAs = [t \in Targets |-> NoAddr]
    /\ sent = NoSent

\* No session's worker is looked at.
TargetQuiet ==
    /\ natConnUseFixedTargetAddrPort = FALSE
    /\ natConnFixedTargetAddrPort = NoAddr
    /\ targetQueue = <<>>
    /\ cachedTargetAddr = NoTarget
    /\ cachedTargetAddrPort = NoAddr
    /\ dns = [n \in Domains |-> NoAddr]
    /\ dnsChanges = 0
    /\ resolutions = 0
    /\ resolvedAs = [t \in Targets |-> NoAddr]
    /\ sent = NoSent

Init == UDPInit(MaxPkts) /\ TCPQuiet /\ CredQuiet /\ TargetQuiet

InitRun == UDPInit(RunPkts) /\ TCPQuiet /\ CredQuiet /\ TargetQuiet

InitTCP == UDPInit(0) /\ TCPInit(BOOLEAN, Framings) /\ CredQuiet /\ TargetQuiet

InitCred == UDPInit(0) /\ TCPQuiet /\ CredInit(MaxCalls, Content("object", "indent", {<<"a", 1>>})) /\ TargetQuiet

\* ------------------------------------------------------------ the pool

\* s.packetBufPool.Put(packetBufp)
PoolPut(b) == [puts EXCEPT ![b] = Min(2, @ + 1)]

\* ------------------------------------------------------------ receive loop

\* packetBufp := s.packetBufPool.Get()
RecvGet ==
    /\ recvPc = "get"
    /\ nborrow' = nborrow + 1
    /\ recvBuf' = nborrow + 1
    /\ recvPc' = "read"
    /\ recvResult' = "none"
    /\ UNCHANGED <<serverConnClosed, mu, wg, table, nsess, sessCsid, natConnSendCh, chClosed,
                   chCloses, natConnClosed, deadline, downPc, downExit, upPc, written,
                   recvCsid, puts, stopPc, faults, arrivals, otherVars, taken, fullDrops, sources, replyTo, unowned, clientAddrPort, clientOobCache, recvFrom>>

\* The buffer of an iteration that ends before the table lock is taken.
EarlyDropPuts(b) == PoolPut(b)

\* ReadMsgUDPAddrPort fails with net.ErrClosed: put the buffer back and leave the loop.
RecvReadClosed ==
    /\ recvPc = "read"
    /\ serverConnClosed
    /\ puts' = EarlyDropPuts(recvBuf)
    /\ recvBuf' = NoPkt
    /\ recvPc' = "exited"
    /\ recvResult' = "ErrClosed"
    /\ UNCHANGED <<serverConnClosed, mu, wg, table, nsess, sessCsid, natConnSendCh, chClosed,
                   chCloses, natConnClosed, deadline, downPc, downExit, upPc, written,
                   recvCsid, nborrow, stopPc, faults, arrivals, otherVars, taken, fullDrops, sources, replyTo, unowned, clientAddrPort, clientOobCache, recvFrom>>

\* A read error, bad flags or a SessionInfo failure: put the buffer back, continue.
RecvReadDrop(why) ==
    /\ recvPc = "read"
    /\ ~serverConnClosed
    /\ arrivals > 0
    /\ arrivals' = arrivals - 1
    /\ puts' = EarlyDropPuts(recvBuf)
    /\ recvBuf' = NoPkt
    /\ recvPc' = "get"
    /\ recvResult' = why
    /\ UNCHANGED <<serverConnClosed, mu, wg, table, nsess, sessCsid, natConnSendCh, chClosed,
                   chCloses, natConnClosed, deadline, downPc, downExit, upPc, written,
                   recvCsid, nborrow, stopPc, faults, otherVars, taken, fullDrops, sources, replyTo, unowned, clientAddrPort, clientOobCache, recvFrom>>

\* A datagram was read and SessionInfo returned csid c.
RecvReadOk(c) ==
    /\ recvPc = "read"
    /\ ~serverConnClosed
    /\ arrivals > 0
    /\ arrivals' = arrivals - 1
    /\ recvCsid' = c
    /\ recvFrom' \in sources
    /\ recvPc' = "lock"
    /\ UNCHANGED <<serverConnClosed, mu, wg, table, nsess, sessCsid, natConnSendCh, chClosed,
                   chCloses, natConnClosed, deadline, downPc, downExit, upPc, written,
                   recvBuf, recvResult, nborrow, puts, stopPc, faults, otherVars, taken, fullDrops, sources, replyTo, unowned, clientAddrPort, clientOobCache>>

\* Faulty variant: the channel takes one packet more than its capacity.
ChanFullLate(s) == Len(natConnSendCh[s]) > sendChannelCapacity

\* The select's default case is taken: the channel buffer is full.
ChanFull(s) == Len(natConnSendCh[s]) >= sendChannelCapacity

\* The buffer of a packet dropped on the miss path.
MissFailPuts(b) == PoolPut(b)

\* The buffer of a packet dropped because UnpackInPlace failed on the hit path.
HitFailPuts(b) == PoolPut(b)

\* Faulty variant: a packet dropped on a full channel keeps its buffer out of the pool.
FullDropNoPut(b) == puts

\* The buffer of a packet dropped because the send channel is full.
FullDropPuts(b) == PoolPut(b)

\* Faulty variant: the path returns to the top of the loop with the lock held.
DropStillLocked == ByRecv

\* s.mu.Unlock() on a path that drops the packet under the lock.
DropUnlock == Free

\* The select at the end of an iteration: a non-blocking send of the buffer to
\* entry.natConnSendCh. A send on a closed channel panics.
SelectSend(s) ==
    IF chClosed[s]
    THEN /\ faults' = faults \cup {"send on closed channel"}
         /\ recvResult' = "panic"
         /\ UNCHANGED <<natConnSendCh, puts, fullDrops>>
    ELSE IF ChanFull(s)
    THEN /\ puts' = FullDropPuts(recvBuf)
         /\ fullDrops' = [fullDrops EXCEPT ![s] = @ + 1]
         /\ recvResult' = "full"
         /\ UNCHANGED <<natConnSendCh, faults>>
    ELSE /\ natConnSendCh' = [natConnSendCh EXCEPT ![s] = Append(@, recvBuf)]
         /\ recvResult' = "enqueued"
         /\ UNCHANGED <<puts, faults, fullDrops>>

\* conn.UpdateOobCache(entry.clientOobCache, oobBuf[:oobn], ...): the control bytes
\* read with the datagram replace the cached ones; with none read the cache is kept.
UpdateOobCache(cache, oob) == IF oob = NoOob THEN cache ELSE oob

\* entry.clientAddrPort = clientAddrPort on the hit path, after a successful unpack.
RefreshClient(s) == [clientAddrPort EXCEPT ![s] = recvFrom.addr]

\* Faulty variant: the client address is refreshed before the packet is unpacked.
HitFailRefreshed(s) == RefreshClient(s)

\* entry.clientAddrPort when UnpackInPlace fails on the hit path: the assignment is
\* not reached.
HitFailClient(s) == clientAddrPort

\* natConn when the miss path fails at step: the socket ListenUDP returned, if the
\* step comes after ListenUDP.
MissFailOpened(step) ==
    IF \E i, j \in 1..Len(MissSteps) :
            MissSteps[i] = "ListenUDP" /\ MissSteps[j] = step /\ i < j
    THEN 1 ELSE 0

\* The sockets a failure of the miss path at step leaves open: the path puts the
\* buffer back and unlocks, natConn is not closed.
MissFailLeaves(step) == MissFailOpened(step)

\* Miss path, one of its steps fails: drop the packet, unlock, continue.
RecvMissFail(step) ==
    /\ recvPc = "lock"
    /\ mu = Free
    /\ table[recvCsid] = NoSession
    /\ puts' = MissFailPuts(recvBuf)
    /\ unowned' = unowned + MissFailLeaves(step)
    /\ mu' = DropUnlock
    /\ recvBuf' = NoPkt
    /\ recvPc' = "get"
    /\ recvResult' = step
    /\ UNCHANGED <<serverConnClosed, wg, table, nsess, sessCsid, natConnSendCh, chClosed,
                   chCloses, natConnClosed, deadline, downPc, downExit, upPc, written,
                   recvCsid, nborrow, stopPc, faults, arrivals, otherVars, taken, fullDrops, sources, replyTo, clientAddrPort, clientOobCache, recvFrom>>

\* Faulty variant: the wait-group is incremented for one worker only.
WgAddOne == wg + 1

\* s.wg.Add(2)
WgAddWorkers == wg + 2

\* Miss path, every step succeeds: a new session is inserted into the table, its two
\* workers are spawned, and the packet is handed to its send channel.
RecvMissOk ==
    /\ recvPc = "lock"
    /\ mu = Free
    /\ table[recvCsid] = NoSession
    /\ nsess < MaxSessions
    /\ LET s == nsess + 1 IN
        /\ nsess' = s
        /\ sessCsid' = [sessCsid EXCEPT ![s] = recvCsid]
        /\ deadline' = [deadline EXCEPT ![s] = "natTimeout"]
        /\ table' = [table EXCEPT ![recvCsid] = s]
        /\ wg' = WgAddWorkers
        /\ downPc' = [downPc EXCEPT ![s] = "run"]
        /\ upPc' = [upPc EXCEPT ![s] = "recv"]
        /\ clientAddrPort' = [clientAddrPort EXCEPT ![s] = recvFrom.addr]
        /\ clientOobCache' = [clientOobCache EXCEPT ![s] = UpdateOobCache(NoOob, recvFrom.oob)]
        /\ SelectSend(s)
    /\ mu' = Free
    /\ recvBuf' = NoPkt
    /\ recvPc' = "get"
    /\ UNCHANGED <<serverConnClosed, chClosed, chCloses, natConnClosed, downExit,
                   written, recvCsid, nborrow, stopPc, arrivals, otherVars, taken, sources, replyTo, unowned,
                   recvFrom>>

\* Hit path, UnpackInPlace fails: drop the packet, unlock, continue.
RecvHitFail ==
    /\ recvPc = "lock"
    /\ mu = Free
    /\ table[recvCsid] # NoSession
    /\ puts' = HitFailPuts(recvBuf)
    /\ clientAddrPort' = HitFailClient(table[recvCsid])
    /\ mu' = DropUnlock
    /\ recvBuf' = NoPkt
    /\ recvPc' = "get"
    /\ recvResult' = "HitUnpackInPlace"
    /\ UNCHANGED <<serverConnClosed, wg, table, nsess, sessCsid, natConnSendCh, chClosed,
                   chCloses, natConnClosed, deadline, downPc, downExit, upPc, written,
                   recvCsid, nborrow, stopPc, faults, arrivals, otherVars, taken, fullDrops,
                   sources, replyTo, unowned, clientOobCache, recvFrom>>

\* Hit path after a successful UnpackInPlace, to the end of the iteration: the client
\* address and control bytes of the session found are refreshed and the packet is
\* handed to its send channel.
HitRefreshAndSend ==
    /\ clientAddrPort' = RefreshClient(table[recvCsid])
    /\ clientOobCache' = [clientOobCache EXCEPT ![table[recvCsid]] =
                            UpdateOobCache(@, recvFrom.oob)]
    /\ SelectSend(table[recvCsid])
    /\ mu' = Free
    /\ recvBuf' = NoPkt
    /\ recvPc' = "get"
    /\ UNCHANGED <<serverConnClosed, wg, table, nsess, sessCsid, chClosed, chCloses,
                   natConnClosed, deadline, downPc, downExit, upPc, written,
                   recvCsid, nborrow, stopPc, arrivals, otherVars, taken, sources, replyTo, unowned, recvFrom>>

\* Hit path: the packet is handed to the send channel of the session found.
RecvHitOk ==
    /\ recvPc = "lock"
    /\ mu = Free
    /\ table[recvCsid] # NoSession
    /\ HitRefreshAndSend

\* Hit path, seen by a goroutine that does not take s.mu: UnpackInPlace succeeded and
\* the store to entry.clientAddrPort is under way.
RecvHitUnpacked ==
    /\ recvPc = "lock"
    /\ mu = Free
    /\ table[recvCsid] # NoSession
    /\ mu' = ByRecv
    /\ recvPc' = "store"
    /\ UNCHANGED <<serverConnClosed, wg, table, nsess, sessCsid, natConnSendCh, chClosed,
                   chCloses, natConnClosed, deadline, downPc, downExit, upPc, written,
                   recvBuf, recvCsid, recvResult, nborrow, puts, stopPc, faults, arrivals,
                   otherVars, taken, fullDrops, sources, replyTo, unowned, clientAddrPort,
                   clientOobCache, recvFrom>>

\* The store is complete; the rest of the iteration.
RecvHitStore ==
    /\ recvPc = "store"
    /\ mu = ByRecv
    /\ HitRefreshAndSend

\* ------------------------------------------------------------ upstream worker

\* Faulty variant: a receive yields the packet sent last.
ChanLast(ch) == ch[Len(ch)]

\* The element a receive from the channel yields.
ChanHead(ch) == Head(ch)

\* The channel after that receive.
ChanRest(ch) == Tail(ch)

\* The buffer of a packet the upstream worker is done with, whatever the outcome.
UpPuts(b, outcome) == PoolPut(b)

\* One turn of the upstream loop: a packet is received from entry.natConnSendCh, then
\* PackInPlace, the target address resolution and WriteToUDPAddrPort; the buffer goes
\* back to the pool on every outcome.
UpHandle(s, outcome) ==
    /\ upPc[s] = "recv"
    /\ natConnSendCh[s] # <<>>
    /\ natConnSendCh' = [natConnSendCh EXCEPT ![s] = ChanRest(@)]
    /\ puts' = UpPuts(ChanHead(natConnSendCh[s]), outcome)
    /\ IF outcome \in {"writeErr", "written"} /\ natConnClosed[s]
       THEN faults' = faults \cup {"write on closed natConn"}
       ELSE UNCHANGED faults
    /\ taken' = [taken EXCEPT ![s] = ChanHead(natConnSendCh[s])]
    /\ written' = IF outcome = "written"
                  THEN [written EXCEPT ![s] = ChanHead(natConnSendCh[s])]
                  ELSE written
    /\ UNCHANGED <<serverConnClosed, mu, wg, table, nsess, sessCsid, chClosed,
                   chCloses, natConnClosed, deadline, downPc, downExit, upPc, recvPc,
                   recvBuf, recvCsid, recvResult, nborrow, stopPc, arrivals, otherVars, fullDrops, sources, replyTo, unowned, clientAddrPort, clientOobCache, recvFrom>>

\* Faulty variant: the worker leaves its loop as soon as the channel is closed, whatever
\* is still buffered in it.
UpSeesClosedEarly(s) == chClosed[s]

\* The receive reports the channel closed (and drained): leave the loop.
UpSeesClosed(s) == chClosed[s] /\ natConnSendCh[s] = <<>>

\* The channel is closed and empty: break, then entry.natConn.Close().
UpClose(s) ==
    /\ upPc[s] = "recv"
    /\ UpSeesClosed(s)
    /\ natConnClosed' = [natConnClosed EXCEPT ![s] = TRUE]
    /\ deadline' = [deadline EXCEPT ![s] = "unset"]
    /\ taken' = [taken EXCEPT ![s] = NoPkt]
    /\ written' = [written EXCEPT ![s] = NoPkt]
    /\ upPc' = [upPc EXCEPT ![s] = "done"]
    /\ UNCHANGED <<serverConnClosed, mu, wg, table, nsess, sessCsid, natConnSendCh, chClosed,
                   chCloses, downPc, downExit, recvPc, recvBuf,
                   recvCsid, recvResult, nborrow, puts, stopPc, faults, arrivals, otherVars, fullDrops, sources, replyTo, unowned, clientAddrPort, clientOobCache, recvFrom>>

\* s.wg.Done()
WgDone == wg - 1

\* The upstream worker's s.wg.Done().
UpDone(s) ==
    /\ upPc[s] = "done"
    /\ wg' = WgDone
    /\ upPc' = [upPc EXCEPT ![s] = "exited"]
    /\ UNCHANGED <<serverConnClosed, mu, table, nsess, sessCsid, natConnSendCh, chClosed,
                   chCloses, natConnClosed, deadline, downPc, downExit, written, recvPc,
                   recvBuf, recvCsid, recvResult, nborrow, puts, stopPc, faults, arrivals, otherVars, taken, fullDrops, sources, replyTo, unowned, clientAddrPort, clientOobCache, recvFrom>>

\* ------------------------------------------------------------ downstream worker

\* One turn of the loop that ends in continue: a reply read from entry.natConn is
\* unpacked, packed and written to serverConn (or skipped after a logged error).
DownRelay(s) ==
    /\ downPc[s] = "run"
    /\ ~serverConnClosed
    /\ UNCHANGED <<serverConnClosed, mu, wg, table, nsess, sessCsid, natConnSendCh, chClosed,
                   chCloses, natConnClosed, deadline, downPc, downExit, upPc, written,
                   recvPc, recvBuf, recvCsid, recvResult, nborrow, puts, stopPc, faults, arrivals, otherVars, taken, fullDrops, sources, replyTo, unowned, clientAddrPort, clientOobCache, recvFrom>>

\* The receive loop is storing a new value into the clientAddrPort of session s.
Storing(s) == recvPc = "store" /\ table[recvCsid] = s /\ recvFrom.addr # clientAddrPort[s]

\* What the worker's read of entry.clientAddrPort yields. The worker does not hold
\* s.mu: a read that runs while the receive loop stores the multi-word value yields
\* the old value, the new one, or words of both.
ClientRead(s) ==
    IF Storing(s)
    THEN {clientAddrPort[s], recvFrom.addr} \X {clientAddrPort[s], recvFrom.addr}
    ELSE {<<clientAddrPort[s], clientAddrPort[s]>>}

\* One turn of the loop that reaches s.serverConn.WriteMsgUDPAddrPort(...,
\* entry.clientOobCache, entry.clientAddrPort): a reply is written to the client.
DownReply(s) ==
    /\ downPc[s] = "run"
    /\ ~serverConnClosed
    /\ \E a \in ClientRead(s) : replyTo' = Reply(s, a[1], a[2])
    /\ UNCHANGED <<serverConnClosed, mu, wg, table, nsess, sessCsid, natConnSendCh, chClosed,
                   chCloses, natConnClosed, deadline, downPc, downExit, upPc, written,
                   recvPc, recvBuf, recvCsid, recvResult, nborrow, puts, stopPc, faults,
                   arrivals, otherVars, taken, fullDrops, sources, clientAddrPort,
                   clientOobCache, recvFrom, unowned>>

\* The read deadline of entry.natConn can pass: one was set.
DeadlineSet(s) == deadline[s] \in {"natTimeout", "now"}

\* ReadMsgUDPAddrPort returns os.ErrDeadlineExceeded: break.
DownTimeout(s) ==
    /\ downPc[s] = "run"
    /\ DeadlineSet(s)
    /\ downPc' = [downPc EXCEPT ![s] = "lock"]
    /\ downExit' = [downExit EXCEPT ![s] = "deadline"]
    /\ UNCHANGED <<serverConnClosed, mu, wg, table, nsess, sessCsid, natConnSendCh, chClosed,
                   chCloses, natConnClosed, deadline, upPc, written,
                   recvPc, recvBuf, recvCsid, recvResult, nborrow, puts, stopPc, faults, arrivals, otherVars, taken, fullDrops, sources, replyTo, unowned, clientAddrPort, clientOobCache, recvFrom>>

\* Faulty variant: any error of the write to serverConn ends the loop.
WriteErrAny == TRUE

\* errors.Is(err, net.ErrClosed) for the write to serverConn: the socket was closed.
WriteErrClosed == serverConnClosed

\* WriteMsgUDPAddrPort on serverConn returns net.ErrClosed: break.
DownWriteClosed(s) ==
    /\ downPc[s] = "run"
    /\ WriteErrClosed
    /\ downPc' = [downPc EXCEPT ![s] = "lock"]
    /\ downExit' = [downExit EXCEPT ![s] = "closed"]
    /\ UNCHANGED <<serverConnClosed, mu, wg, table, nsess, sessCsid, natConnSendCh, chClosed,
                   chCloses, natConnClosed, deadline, upPc, written,
                   recvPc, recvBuf, recvCsid, recvResult, nborrow, puts, stopPc, faults, arrivals, otherVars, taken, fullDrops, sources, replyTo, unowned, clientAddrPort, clientOobCache, recvFrom>>

\* Faulty variant: the channel is closed in a critical section of its own, the lock is
\* released before the entry is deleted.
DownUnlockedAfterClose(s) == Free

\* The lock the downstream worker holds while it closes the channel.
DownLocked(s) == ByDown(s)

\* s.mu.Lock(); close(entry.natConnSendCh). Closing a closed channel panics.
DownClose(s) ==
    /\ downPc[s] = "lock"
    /\ mu = Free
    /\ mu' = DownLocked(s)
    /\ chClosed' = [chClosed EXCEPT ![s] = TRUE]
    /\ chCloses' = [chCloses EXCEPT ![s] = Min(2, @ + 1)]
    /\ faults' = IF chClosed[s] THEN faults \cup {"close of closed channel"} ELSE faults
    /\ downPc' = [downPc EXCEPT ![s] = "delete"]
    /\ UNCHANGED <<serverConnClosed, wg, table, nsess, sessCsid, natConnSendCh,
                   natConnClosed, deadline, downExit, upPc, written,
                   recvPc, recvBuf, recvCsid, recvResult, nborrow, puts, stopPc, arrivals, otherVars, taken, fullDrops, sources, replyTo, unowned, clientAddrPort, clientOobCache, recvFrom>>

\* Faulty variant: the worker leaves the entry in the table.
TableKeep(c) == table

\* Faulty variant: the teardown empties the table.
TableClear(c) == [x \in CSIDs |-> NoSession]

\* delete(s.table, csid)
TableDelete(c) == [table EXCEPT ![c] = NoSession]

\* delete(s.table, csid); s.mu.Unlock()
DownDelete(s) ==
    /\ downPc[s] = "delete"
    /\ table' = TableDelete(sessCsid[s])
    /\ fullDrops' = [fullDrops EXCEPT ![s] = 0]
    /\ mu' = IF mu = ByDown(s) THEN Free ELSE mu
    /\ downPc' = [downPc EXCEPT ![s] = "done"]
    /\ UNCHANGED <<serverConnClosed, wg, nsess, sessCsid, natConnSendCh, chClosed,
                   chCloses, natConnClosed, deadline, downExit, upPc, written,
                   recvPc, recvBuf, recvCsid, recvResult, nborrow, puts, stopPc, faults, arrivals, otherVars, taken, sources, replyTo, unowned, clientAddrPort, clientOobCache, recvFrom>>

\* The downstream worker's s.wg.Done().
DownDone(s) ==
    /\ downPc[s] = "done"
    /\ wg' = WgDone
    /\ downPc' = [downPc EXCEPT ![s] = "exited"]
    /\ downExit' = [downExit EXCEPT ![s] = "none"]
    /\ UNCHANGED <<serverConnClosed, mu, table, nsess, sessCsid, natConnSendCh, chClosed,
                   chCloses, natConnClosed, deadline, upPc, written,
                   recvPc, recvBuf, recvCsid, recvResult, nborrow, puts, stopPc, faults, arrivals, otherVars, taken, fullDrops, sources, replyTo, unowned, clientAddrPort, clientOobCache, recvFrom>>

\* ------------------------------------------------------------ Stop

\* s.serverConn.Close()
StopClose ==
    /\ stopPc = "idle"
    /\ serverConnClosed' = TRUE
    /\ stopPc' = "sweep"
    /\ UNCHANGED <<mu, wg, table, nsess, sessCsid, natConnSendCh, chClosed,
                   chCloses, natConnClosed, deadline, downPc, downExit, upPc, written, recvPc, recvBuf, recvCsid, recvResult, nborrow, puts, faults, arrivals, otherVars, taken, fullDrops, sources, replyTo, unowned, clientAddrPort, clientOobCache, recvFrom>>

\* The sessions Stop finds in the table.
InTable(s) == \E c \in CSIDs : table[c] = s

\* Under s.mu: entry.natConn.SetReadDeadline(now) for every entry of the table.
StopSweep ==
    /\ stopPc = "sweep"
    /\ mu = Free
    /\ deadline' = [s \in Sessions |-> IF InTable(s) THEN "now" ELSE deadline[s]]
    /\ stopPc' = "wait"
    /\ UNCHANGED <<serverConnClosed, mu, wg, table, nsess, sessCsid, natConnSendCh, chClosed,
                   chCloses, natConnClosed, downPc, downExit, upPc, written, recvPc, recvBuf, recvCsid, recvResult, nborrow, puts, faults, arrivals, otherVars, taken, fullDrops, sources, replyTo, unowned, clientAddrPort, clientOobCache, recvFrom>>

\* s.wg.Wait() returns: the counter is zero.
StopWait ==
    /\ stopPc = "wait"
    /\ wg = 0
    /\ stopPc' = "returned"
    /\ UNCHANGED <<serverConnClosed, mu, wg, table, nsess, sessCsid, natConnSendCh, chClosed,
                   chCloses, natConnClosed, deadline, downPc, downExit, upPc, written, recvPc, recvBuf, recvCsid, recvResult, nborrow, puts, faults, arrivals, otherVars, taken, fullDrops, sources, replyTo, unowned, clientAddrPort, clientOobCache, recvFrom>>

\* ------------------------------------------------------------ specification

\* The receive loop while serverConn is open.
RecvLoopOpen ==
    \/ RecvGet
    \/ \E why \in {"ReadMsgUDPAddrPort", "ParseFlagsForError", "SessionInfo"} : RecvReadDrop(why)
    \/ \E c \in CSIDs : RecvReadOk(c)
    \/ \E step \in MissFailures : RecvMissFail(step)
    \/ RecvMissOk
    \/ RecvHitFail
    \/ RecvHitOk

RecvLoop ==
    \/ RecvLoopOpen
    \/ RecvReadClosed

Upstream(s) ==
    \/ \E outcome \in UpOutcomes : UpHandle(s, outcome)
    \/ UpClose(s)
    \/ UpDone(s)

\* The downstream worker while serverConn is open.
DownstreamOpen(s) ==
    \/ DownRelay(s)
    \/ DownTimeout(s)
    \/ DownClose(s)
    \/ DownDelete(s)
    \/ DownDone(s)

Downstream(s) ==
    \/ DownstreamOpen(s)
    \/ DownWriteClosed(s)

Stop ==
    \/ StopClose
    \/ StopSweep
    \/ StopWait

\* The relay from Start on, with Stop called at some point.
Next ==
    \/ RecvLoop
    \/ \E s \in Sessions : Upstream(s)
    \/ \E s \in Sessions : Downstream(s)
    \/ Stop

Spec == Init /\ [][Next]_vars

\* The relay from Start on, while Stop is not called.
NextRun ==
    \/ RecvLoopOpen
    \/ \E s \in Sessions : Upstream(s)
    \/ \E s \in Sessions : DownstreamOpen(s)

SpecRun == InitRun /\ [][NextRun]_vars

\* The relay while Stop is not called, at the grain at which the downstream worker,
\* which reads entry.clientAddrPort without s.mu, sees the receive loop's hit path.
NextRace ==
    \/ RecvGet
    \/ \E why \in {"ReadMsgUDPAddrPort", "ParseFlagsForError", "SessionInfo"} : RecvReadDrop(why)
    \/ \E c \in CSIDs : RecvReadOk(c)
    \/ \E step \in MissFailures : RecvMissFail(step)
    \/ RecvMissOk
    \/ RecvHitFail
    \/ RecvHitUnpacked
    \/ RecvHitStore
    \/ \E s \in Sessions : Upstream(s)
    \/ \E s \in Sessions : DownstreamOpen(s)
    \/ \E s \in Sessions : DownReply(s)

\* ---------------------------------------------- upstream worker: target address

\* queuedPacket.targetAddr.AddrPort(s.preferIPv6): an IP address and port is returned
\* as it is, a domain name is looked up (NoAddr: the lookup fails).
ResolveTarget(target) == IF target.domain THEN dns[target.id] ELSE target.id

\* Faulty variant: whatever is cached is used for every target.
CachedAny(cached, target) == cached # NoTarget

\* bytes.Equal(cachedTargetAddr, queuedPacket.targetAddr)
CachedIs(cached, target) == cached = target

\* One turn of the upstream loop, as to where the packet goes: PackInPlace, the
\* resolution of the target address unless the target is fixed or cached, and
\* WriteToUDPAddrPort to cachedTargetAddrPort.
UpTarget(packOk, writeOk) ==
    /\ targetQueue # <<>>
    /\ targetQueue' = Tail(targetQueue)
    /\ LET target == Head(targetQueue)
           resolve == /\ ~natConnUseFixedTargetAddrPort
                      /\ ~CachedIs(cachedTargetAddr, target)
           targetAddrPort == ResolveTarget(target)
           wrote == IF writeOk THEN "written" ELSE "writeErr"
       IN  IF ~packOk
           THEN /\ sent' = Sent(target, "packErr", NoAddr)
                /\ UNCHANGED <<cachedTargetAddr, cachedTargetAddrPort, resolutions, resolvedAs>>
           ELSE IF resolve /\ targetAddrPort = NoAddr
           THEN /\ sent' = Sent(target, "resolveErr", NoAddr)
                /\ resolutions' = resolutions + 1
                /\ UNCHANGED <<cachedTargetAddr, cachedTargetAddrPort, resolvedAs>>
           ELSE IF resolve
           THEN /\ cachedTargetAddr' = target
                /\ cachedTargetAddrPort' = targetAddrPort
                /\ resolutions' = resolutions + 1
                /\ resolvedAs' = [resolvedAs EXCEPT ![target] = targetAddrPort]
                /\ sent' = Sent(target, wrote, targetAddrPort)
           ELSE /\ sent' = Sent(target, wrote, cachedTargetAddrPort)
                /\ UNCHANGED <<cachedTargetAddr, cachedTargetAddrPort, resolutions, resolvedAs>>
    /\ UNCHANGED <<natConnUseFixedTargetAddrPort, natConnFixedTargetAddrPort, dns, dnsChanges,
                   udpVars, tcpVars, credVars>>

\* The resolver's answer for domain name n becomes a (NoAddr: lookups of it fail).
DnsChange(n, a) ==
    /\ dnsChanges > 0
    /\ targetQueue # <<>>
    /\ dns[n] # a
    /\ dns' = [dns EXCEPT ![n] = a]
    /\ dnsChanges' = dnsChanges - 1
    /\ UNCHANGED <<natConnUseFixedTargetAddrPort, natConnFixedTargetAddrPort, targetQueue,
                   cachedTargetAddr, cachedTargetAddrPort, resolutions, resolvedAs, sent,
                   udpVars, tcpVars, credVars>>

InitTarget ==
    /\ UDPInit(0) /\ TCPQuiet /\ CredQuiet
    /\ TargetInit(BOOLEAN, [1..MaxTargets -> Targets], MaxDnsChanges)

NextTarget ==
    \/ \E packOk, writeOk \in BOOLEAN : UpTarget(packOk, writeOk)
    \/ \E n \in Domains, a \in Addrs \cup {NoAddr} : DnsChange(n, a)

\* The upstream worker of one session and the resolver.
SpecTarget == InitTarget /\ [][NextTarget]_vars

\* ------------------------------------------------------------ TCP relay

Max(a, b) == IF a > b THEN a ELSE b

\* b[lo:hi]
Slice(b, lo, hi) ==
    LET n == Len(b.data)
        from == Max(lo - b.zb, 0)
        to == Min(Max(hi - b.zb, 0), n)
    IN  Bytes(Max(Min(hi, b.zb) - Min(lo, b.zb), 0),
              IF from < to THEN SubSeq(b.data, from + 1, to) ELSE <<>>,
              Max(hi - Max(lo, b.zb + n), 0))

\* make([]byte, n)
MakeBytes(n) == Bytes(n, <<>>, 0)

\* The buffer after ReadZeroCopy stored data at offset front.
StoreAt(b, front, data) ==
    Bytes(front, data, BytesLen(b) - front - Len(data))

\* The client's bytes number from + 1 to from + n.
StreamBytes(from, n) == [i \in 1..n |-> from + i]

\* Faulty variant: AcceptTCP keeps returning connections after the listener is closed.
ListenerAcceptsAlways == TRUE

\* s.listener.AcceptTCP() returns a connection: the listener is open.
ListenerAccepts == ~listenerClosed

\* clientConn, err := s.listener.AcceptTCP(); go s.handleConn(clientConn)
AcceptConn(k) ==
    /\ acceptPc = "run"
    /\ ListenerAccepts
    /\ conns[k].pc = "none"
    /\ \A j \in 1..(k - 1) : conns[j].pc # "none"
    /\ conns' = [conns EXCEPT ![k].pc = "accepted"]
    /\ UNCHANGED <<waitForInitialPayload, framing, listenerClosed, acceptPc, udpVars, credVars, targetVars>>

\* AcceptTCP fails with net.ErrClosed: the accept loop returns.
AcceptClosed ==
    /\ acceptPc = "run"
    /\ listenerClosed
    /\ acceptPc' = "exited"
    /\ UNCHANGED <<waitForInitialPayload, framing, listenerClosed, conns, udpVars, credVars, targetVars>>

\* TCPRelay.Stop: s.listener.Close()
TCPStop ==
    /\ listenerClosed' = TRUE
    /\ UNCHANGED <<waitForInitialPayload, framing, acceptPc, conns, udpVars, credVars, targetVars>>

\* The handler returns: the deferred clientConn.Close() runs.
Return(c, why) == [c EXCEPT !.pc = "returned", !.closed = TRUE, !.outcome = why]

\* socks5.ParseAddr or AddrPort fails on the client address.
ConnParseFail(k) ==
    /\ conns[k].pc = "accepted"
    /\ conns' = [conns EXCEPT ![k] = Return(@, "parse")]
    /\ UNCHANGED <<waitForInitialPayload, framing, listenerClosed, acceptPc, udpVars, credVars, targetVars>>

\* s.server.Accept fails with an error other than the hold sentinel.
ConnAcceptFail(k) ==
    /\ conns[k].pc = "accepted"
    /\ conns' = [conns EXCEPT ![k] = Return([@ EXCEPT !.closerDone = TRUE], "handshake")]
    /\ UNCHANGED <<waitForInitialPayload, framing, listenerClosed, acceptPc, udpVars, credVars, targetVars>>

\* s.server.Accept returns socks5.ErrUDPAssociateHold.
ConnAcceptHold(k) ==
    /\ conns[k].pc = "accepted"
    /\ conns' = [conns EXCEPT ![k].pc = "hold"]
    /\ UNCHANGED <<waitForInitialPayload, framing, listenerClosed, acceptPc, udpVars, credVars, targetVars>>

\* Faulty variant: only a byte read ends the hold quietly, io.EOF is a failure.
HoldEndsOnByte(res) == res = "byte"

\* err == nil || err == io.EOF after the hold's read
HoldEnds(res) == res \in {"byte", "EOF"}

\* The 1-byte read of the hold: a byte or io.EOF ends the handler, another error is
\* reported as a failed handshake.
ConnHoldRead(k, res) ==
    /\ conns[k].pc = "hold"
    /\ conns' = [conns EXCEPT ![k] =
                    IF HoldEnds(res)
                    THEN Return([@ EXCEPT !.holdRead = res], "hold")
                    ELSE Return([@ EXCEPT !.holdRead = res, !.closerDone = TRUE], "handshake")]
    /\ UNCHANGED <<waitForInitialPayload, framing, listenerClosed, acceptPc, udpVars, credVars, targetVars>>

\* s.server.Accept succeeds and returns n bytes of initial payload; then
\* s.router.GetTCPClient fails.
ConnRouteFail(k, n) ==
    /\ conns[k].pc = "accepted"
    /\ conns' = [conns EXCEPT ![k] =
                    Return([@ EXCEPT !.accepted = Bytes(0, StreamBytes(0, n), 0),
                                     !.payload = Bytes(0, StreamBytes(0, n), 0),
                                     !.routed = TRUE], "route")]
    /\ UNCHANGED <<waitForInitialPayload, framing, listenerClosed, acceptPc, udpVars, credVars, targetVars>>

\* The condition of the initial-payload wait.
ShouldWait(native, payload) == waitForInitialPayload /\ native

\* Faulty variant: the larger of the framing's minimum and the default.
PayloadBufSizeMax(minBuf) == Max(minBuf, initialPayloadWaitBufferSize)

\* payloadBufSize of the wait buffer
PayloadBufSize(minBuf) == IF minBuf = 0 THEN initialPayloadWaitBufferSize ELSE minBuf

\* s.server.Accept succeeds and returns n bytes of initial payload; the router
\* returns a client; if the wait is due, the wait buffer is made and the read
\* deadline is set (dlOk: SetReadDeadline succeeds).
ConnRouted(k, n, native, dlOk) ==
    /\ conns[k].pc = "accepted"
    /\ LET got == Bytes(0, StreamBytes(0, n), 0)
           c == [conns[k] EXCEPT !.accepted = got, !.payload = got, !.native = native,
                                  !.routed = TRUE]
           buf == MakeBytes(framing.front + PayloadBufSize(framing.minBuf) + framing.rear)
       IN  conns' = [conns EXCEPT ![k] =
                IF ShouldWait(native, got)
                THEN IF dlOk
                     THEN [c EXCEPT !.pc = "wait", !.payload = buf, !.readDeadline = "wait"]
                     ELSE Return([c EXCEPT !.payload = buf], "setDeadline")
                ELSE [c EXCEPT !.pc = "dial"]]
    /\ UNCHANGED <<waitForInitialPayload, framing, listenerClosed, acceptPc, udpVars, credVars, targetVars>>

\* Faulty variant: the whole wait buffer, headroom included, is the payload.
WaitPayloadWhole(buf, front, n) == buf

\* The payload after a successful ReadZeroCopy of n bytes.
WaitPayload(buf, front, n) == Slice(buf, front, front + n)

\* clientRW.ReadZeroCopy returns n bytes; then the read deadline is cleared (dlOk:
\* SetReadDeadline succeeds).
ConnWaitRead(k, n, dlOk) ==
    /\ conns[k].pc = "wait"
    /\ LET c == conns[k]
           data == StreamBytes(Len(c.accepted.data), n)
           buf == StoreAt(c.payload, framing.front, data)
           d == [c EXCEPT !.waited = TRUE, !.waitEnd = "read",
                             !.payload = WaitPayload(buf, framing.front, n)]
       IN  conns' = [conns EXCEPT ![k] =
                IF dlOk THEN [d EXCEPT !.pc = "dial", !.readDeadline = "none"]
                ELSE Return(d, "resetDeadline")]
    /\ UNCHANGED <<waitForInitialPayload, framing, listenerClosed, acceptPc, udpVars, credVars, targetVars>>

\* clientRW.ReadZeroCopy fails with os.ErrDeadlineExceeded; then the read deadline
\* is cleared.
ConnWaitTimeout(k, dlOk) ==
    /\ conns[k].pc = "wait"
    /\ LET d == [conns[k] EXCEPT !.waited = TRUE, !.waitEnd = "timeout"] IN
       conns' = [conns EXCEPT ![k] =
                IF dlOk THEN [d EXCEPT !.pc = "dial", !.readDeadline = "none"]
                ELSE Return(d, "resetDeadline")]
    /\ UNCHANGED <<waitForInitialPayload, framing, listenerClosed, acceptPc, udpVars, credVars, targetVars>>

\* Faulty variant: after a failed wait read the handler goes on to Dial.
WaitErrorDials(c) == [c EXCEPT !.pc = "dial"]

\* The default case of the switch on the wait read's error: log and return.
WaitError(c) == Return(c, "waitRead")

\* clientRW.ReadZeroCopy fails with another error: the handler returns.
ConnWaitFail(k) ==
    /\ conns[k].pc = "wait"
    /\ conns' = [conns EXCEPT ![k] = WaitError([@ EXCEPT !.waited = TRUE, !.waitEnd = "error"])]
    /\ UNCHANGED <<waitForInitialPayload, framing, listenerClosed, acceptPc, udpVars, credVars, targetVars>>

\* remoteConn, remoteRW, err := c.Dial(targetAddr, payload)
ConnDial(k, ok) ==
    /\ conns[k].pc = "dial"
    /\ LET d == [conns[k] EXCEPT !.dials = Min(2, @ + 1), !.dialed = conns[k].payload] IN
       conns' = [conns EXCEPT ![k] = IF ok THEN [d EXCEPT !.pc = "relay"] ELSE Return(d, "dial")]
    /\ UNCHANGED <<waitForInitialPayload, framing, listenerClosed, acceptPc, udpVars, credVars, targetVars>>

\* zerocopy.TwoWayRelay returns.
ConnRelayEnd(k) ==
    /\ conns[k].pc = "relay"
    /\ conns' = [conns EXCEPT ![k] = Return(@, "relay")]
    /\ UNCHANGED <<waitForInitialPayload, framing, listenerClosed, acceptPc, udpVars, credVars, targetVars>>

HandleConn(k) ==
    \/ ConnParseFail(k)
    \/ ConnAcceptFail(k)
    \/ ConnAcceptHold(k)
    \/ \E res \in {"byte", "EOF", "error"} : ConnHoldRead(k, res)
    \/ \E n \in 0..MaxPayload : ConnRouteFail(k, n)
    \/ \E n \in 0..MaxPayload, native \in BOOLEAN, dlOk \in BOOLEAN : ConnRouted(k, n, native, dlOk)
    \/ \E n \in 1..MaxPayload, dlOk \in BOOLEAN : ConnWaitRead(k, n, dlOk)
    \/ \E dlOk \in BOOLEAN : ConnWaitTimeout(k, dlOk)
    \/ ConnWaitFail(k)
    \/ \E ok \in BOOLEAN : ConnDial(k, ok)
    \/ ConnRelayEnd(k)

NextTCP ==
    \/ \E k \in Conns : AcceptConn(k)
    \/ AcceptClosed
    \/ TCPStop
    \/ \E k \in Conns : HandleConn(k)

SpecTCP == InitTCP /\ [][NextTCP]_vars

\* ------------------------------------------------------------ UDP relay: claims

\* The sessions created so far.
Created == 1..nsess

\* The session's entry is in the table.
Listed(s) == table[sessCsid[s]] = s

\* Occurrences of e in the sequence q.
Count(q, e) == Cardinality({i \in 1..Len(q) : q[i] = e})

RECURSIVE HeldInChans(_, _)
\* Times buffer b is buffered in the send channels of the sessions of S.
HeldInChans(S, b) ==
    IF S = {} THEN 0
    ELSE LET s == CHOOSE x \in S : TRUE
         IN  Count(natConnSendCh[s], b) + HeldInChans(S \ {s}, b)

\* Holders of buffer b: the receive loop and the send channels.
Holders(b) == (IF recvBuf = b THEN 1 ELSE 0) + HeldInChans(Sessions, b)

\* C1: every buffer taken from packetBufPool is, at any moment, either held by
\* exactly one holder (the receive loop or one slot of one send channel) and not
\* yet returned, or returned exactly once and held by nobody; a buffer not taken
\* is neither held nor returned; and once the receive loop and every worker have
\* ended, every buffer taken has been returned.
C1_BufferReturnedExactlyOnce ==
    /\ \A b \in Pkts :
        IF b <= nborrow
        THEN puts[b] + Holders(b) = 1
        ELSE puts[b] = 0 /\ Holders(b) = 0
    /\ (recvPc = "exited" /\ \A s \in Created : upPc[s] = "exited")
        => \A b \in 1..nborrow : puts[b] = 1

\* C1 witness: a channel was closed with a buffer still queued in it, while
\* another buffer was dropped on a full channel and is back in the pool.
C1_Witness ==
    \E s \in Created, b \in Pkts :
        /\ chClosed[s]
        /\ natConnSendCh[s] # <<>>
        /\ fullDrops[s] > 0
        /\ puts[b] = 1

\* C2: the send channel of a session is closed at most once, it is closed exactly
\* when its downstream worker has ended its loop and taken the table lock, the
\* entry is in the table exactly until that worker deletes it, and between the
\* close and the delete the worker holds the table lock; nothing is ever sent on
\* a closed channel and no closed channel is closed again.
C2_CloseOnceWithDelete ==
    /\ \A s \in Created :
        /\ chCloses[s] <= 1
        /\ chClosed[s] <=> downPc[s] \in {"delete", "done", "exited"}
        /\ chClosed[s] <=> chCloses[s] = 1
        /\ Listed(s) <=> downPc[s] \in {"run", "lock", "delete"}
        /\ (chClosed[s] /\ Listed(s)) => mu = ByDown(s)
    /\ \A s \in Sessions \ Created : ~chClosed[s] /\ chCloses[s] = 0
    /\ faults \cap {"send on closed channel", "close of closed channel"} = {}

\* C2 witness: a downstream worker has ended; its channel is closed, its entry gone.
C2_Witness ==
    \E s \in Created :
        /\ downPc[s] = "exited"
        /\ chCloses[s] = 1
        /\ ~Listed(s)
        /\ mu = Free

\* Workers of the sessions created that have not signalled the wait-group yet.
Unsignalled ==
    Cardinality({s \in Created : downPc[s] # "exited"})
    + Cardinality({s \in Created : upPc[s] # "exited"})

C4_NatConnClosedLast ==
    /\ \A s \in Sessions :
        natConnClosed[s] =>
            /\ upPc[s] \in {"done", "exited"}
            /\ downPc[s] \in {"delete", "done", "exited"}
            /\ chClosed[s]
            /\ natConnSendCh[s] = <<>>
    /\ "write on closed natConn" \notin faults

\* C4 witness: an outbound socket was closed by the upstream worker while the
\* downstream worker had closed the channel and not yet deleted the entry.
C4_Witness ==
    \E s \in Created : natConnClosed[s] /\ upPc[s] = "done" /\ downPc[s] = "delete"

\* C5 as stated: when Stop has returned, the table is empty, every worker of every
\* session has exited and every outbound socket is closed.
C5_StopLeavesNothing ==
    stopPc = "returned" =>
        /\ \A c \in CSIDs : table[c] = NoSession
        /\ \A s \in Created :
            downPc[s] = "exited" /\ upPc[s] = "exited" /\ natConnClosed[s]

\* ------------------------------------------------------------ idle eviction

\* Datagrams that arrive in the runs checked for eviction.
LivePkts == 2

InitLive == UDPInit(LivePkts) /\ TCPQuiet /\ CredQuiet /\ TargetQuiet

\* The read deadline of natConn is an absolute time, so the pending read of the
\* downstream worker returns os.ErrDeadlineExceeded once it has passed; sync.Mutex
\* hands the lock to a goroutine that keeps waiting for it (starvation mode); a
\* goroutine holding the lock runs on.
EvictionFairness ==
    \A s \in Sessions :
        /\ WF_vars(DownTimeout(s))
        /\ SF_vars(DownClose(s))
        /\ WF_vars(DownDelete(s))

SpecLive == InitLive /\ [][NextRun]_vars /\ EvictionFairness

\* A step that puts an entry in the table creates a session object never used
\* before: its channel is open, its outbound socket is open, both of its workers
\* are started and counted; and a table slot changes only from empty to that new
\* session or from a session to empty.
FreshSessionStep ==
    \A c \in CSIDs :
        table'[c] # table[c] =>
            \/ table'[c] = NoSession
            \/ /\ table[c] = NoSession
               /\ nsess' = nsess + 1
               /\ table'[c] = nsess'
               /\ downPc[nsess'] = "none" /\ upPc[nsess'] = "none"
               /\ downPc'[nsess'] = "run" /\ upPc'[nsess'] = "recv"
               /\ ~chClosed'[nsess'] /\ ~natConnClosed'[nsess']
               /\ deadline'[nsess'] = "natTimeout"
               /\ wg' = wg + 2

\* C6: a session in the table is eventually removed from it (its read deadline
\* passes whatever the outbound socket receives), and any entry put in the table,
\* in particular for a clientSessionID seen before, is a fresh session: new
\* outbound socket, new send channel, two new workers.
C6_IdleSessionEvictedThenFresh ==
    /\ [][FreshSessionStep]_vars
    /\ \A s \in Sessions : InTable(s) ~> ~InTable(s)

\* C6 witness: a session was removed on its deadline and a later packet with the
\* same clientSessionID has created another session, now in the table.
C6_Witness ==
    \E s, n \in Created :
        /\ s < n
        /\ sessCsid[s] = sessCsid[n]
        /\ downPc[s] \in {"done", "exited"}
        /\ ~InTable(s)
        /\ table[sessCsid[n]] = n
        /\ downPc[n] = "run" /\ upPc[n] = "recv"
        /\ ~chClosed[n] /\ ~natConnClosed[n]

\* ------------------------------------------------------------ hand-off to the channel

\* The receive loop ends an iteration under the lock in this step.
HandOffStep == recvPc = "lock" /\ recvPc' = "get"

\* What a hand-off does: on a full channel the packet is dropped, its buffer is back
\* in the pool, every channel is as it was and the loop is at the top of its next
\* iteration with the lock free; otherwise the packet is appended to the channel.
HandOffEffect ==
    HandOffStep =>
        /\ recvResult' = "full" =>
            LET s == table[recvCsid] IN
            /\ s # NoSession
            /\ Len(natConnSendCh[s]) = sendChannelCapacity
            /\ natConnSendCh' = natConnSendCh
            /\ puts'[recvBuf] = 1
            /\ fullDrops'[s] = fullDrops[s] + 1
            /\ mu' = Free
        /\ recvResult' = "enqueued" =>
            LET s == table'[recvCsid] IN
            /\ Len(natConnSendCh[s]) < sendChannelCapacity
            /\ natConnSendCh' = [natConnSendCh EXCEPT ![s] = Append(@, recvBuf)]
            /\ puts' = puts
            /\ mu' = Free

\* The upstream worker of s has taken nothing from the channel (it is stalled).
Stalled(s) == upPc[s] = "recv" /\ taken[s] = NoPkt /\ ~chClosed[s]

\* C7: the hand-off never blocks: with the lock free the hit path can always take
\* its step, whatever the channel holds; no channel ever holds more than
\* sendChannelCapacity packets; a packet met by a full channel is dropped with its
\* buffer returned, the channel unchanged and the loop back at the top; and while
\* the upstream worker is stalled, once a packet was dropped the channel holds
\* exactly sendChannelCapacity packets (all others sent to it were dropped).
C7_HandOffNeverBlocks ==
    /\ [](\A s \in Sessions : Len(natConnSendCh[s]) <= sendChannelCapacity)
    /\ []((recvPc = "lock" /\ mu = Free /\ table[recvCsid] # NoSession) => ENABLED RecvHitOk)
    /\ [](\A s \in Created :
            (Stalled(s) /\ fullDrops[s] > 0) => Len(natConnSendCh[s]) = sendChannelCapacity)
    /\ [][HandOffEffect]_vars

\* C7 witness: the channel of a stalled session is full, a packet sent to it was
\* dropped into the pool, and a packet read after them was enqueued for another
\* session.
C7_Witness ==
    \E s, n \in Created :
        /\ s # n
        /\ Stalled(s)
        /\ Len(natConnSendCh[s]) = sendChannelCapacity
        /\ fullDrops[s] = 1
        /\ natConnSendCh[n] # <<>>
        /\ LET last == natConnSendCh[s][sendChannelCapacity] IN
            /\ puts[last + 1] = 1
            /\ natConnSendCh[n][Len(natConnSendCh[n])] = last + 2

\* ------------------------------------------------------------ upstream order

\* The sequence is strictly increasing.
Increasing(q) == \A i, j \in 1..Len(q) : i < j => q[i] < q[j]

\* Buffers are numbered in the order the receive loop takes them, so the order of
\* the numbers is the order of enqueuing. A channel changes by a send at its tail of
\* a packet newer than all it holds and all the worker took, or by a receive of its
\* head; a write is of the packet just received, newer than the last one written.
OrderStep ==
    \A s \in Sessions :
        /\ natConnSendCh'[s] # natConnSendCh[s] =>
            \/ /\ natConnSendCh'[s] = Append(natConnSendCh[s], recvBuf)
               /\ \A i \in 1..Len(natConnSendCh[s]) : natConnSendCh[s][i] < recvBuf
               /\ taken[s] < recvBuf
            \/ /\ natConnSendCh[s] # <<>>
               /\ natConnSendCh'[s] = Tail(natConnSendCh[s])
               /\ taken'[s] = Head(natConnSendCh[s])
        /\ (written'[s] # written[s] /\ written'[s] # NoPkt) =>
            /\ natConnSendCh[s] # <<>>
            /\ written'[s] = Head(natConnSendCh[s])
            /\ written'[s] > written[s]
            /\ written'[s] > taken[s]

\* C8: within a session the upstream worker writes packets in the order in which
\* the receive loop enqueued them: the channel is always in enqueue order, the worker
\* takes its head, and each packet written was enqueued after the one written before
\* it (a packet skipped on a failure is omitted, none is written out of order).
C8_UpstreamOrder ==
    /\ [](\A s \in Sessions :
            /\ Increasing(natConnSendCh[s])
            /\ \A i \in 1..Len(natConnSendCh[s]) : taken[s] < natConnSendCh[s][i]
            /\ written[s] <= taken[s])
    /\ [][OrderStep]_vars

\* C8 witness: a packet was written, the next one was skipped on a failure, and a
\* later one is still queued.
C8_Witness ==
    \E s \in Created :
        /\ written[s] # NoPkt
        /\ taken[s] > written[s]
        /\ natConnSendCh[s] # <<>>

\* ------------------------------------------------------------ miss path failures

\* A failing step of the miss path leaves the table, the wait-group, the sessions
\* and their workers and channels as they were, returns the buffer to the pool and
\* releases the lock.
MissFailStep ==
    (recvPc = "lock" /\ recvResult' \in MissFailures) =>
        /\ table' = table
        /\ wg' = wg
        /\ nsess' = nsess
        /\ downPc' = downPc /\ upPc' = upPc
        /\ natConnSendCh' = natConnSendCh
        /\ puts'[recvBuf] = 1
        /\ recvPc' = "get"
        /\ mu' = Free

\* C9: when a step of the miss path fails the packet is dropped, the table and the
\* wait-group are unchanged, no worker is spawned, and the lock is released before
\* the next datagram is read: the receive loop never holds the lock outside the
\* step between its lookup and its unlock.
C9_MissFailureLeavesNothing ==
    /\ [][MissFailStep]_vars
    /\ [](recvPc \in {"get", "read", "exited"} => mu # ByRecv)

\* C9 witness: the last step of the miss path, SetReadDeadline, has failed while
\* another session exists; the loop has taken the buffer of its next iteration.
C9_Witness ==
    /\ recvResult = "SetReadDeadline"
    /\ recvPc = "get"
    /\ nsess = 1
    /\ table[recvCsid] = NoSession
    /\ wg = 2
    /\ mu = Free

\* ------------------------------------------------------------ TCP relay: claims

\* The handler of connection k has called Dial.
Dialed(k) == conns[k].dials >= 1

\* C10 as stated: the wait's read is performed if and only if waiting is enabled,
\* the client has native initial payload and Accept returned no initial payload; when
\* Accept returned initial payload no wait is performed and Dial receives those bytes.
C10_WaitIffThreeConditions ==
    \A k \in Conns :
        Dialed(k) =>
            /\ conns[k].waited <=>
                (waitForInitialPayload /\ conns[k].native /\ BytesLen(conns[k].accepted) = 0)
            /\ BytesLen(conns[k].accepted) > 0 =>
                (~conns[k].waited /\ conns[k].dialed = conns[k].accepted)

\* C11 as stated: when the wait's read ended with deadline exceeded, Dial is called
\* with an empty initial payload.
C11_TimeoutDialsEmpty ==
    \A k \in Conns :
        (Dialed(k) /\ conns[k].waitEnd = "timeout") => BytesLen(conns[k].dialed) = 0

\* The outcomes of a handler that returned before Dial.
EarlyOutcomes ==
    {"parse", "handshake", "hold", "route", "setDeadline", "waitRead", "resetDeadline"}

\* C12: Dial is invoked at most once per connection, and only by a handler whose
\* Accept succeeded, whose router returned a client and whose wait, if performed,
\* ended with bytes read or with deadline exceeded; a handler that returned on a
\* parse, handshake, hold, routing, deadline or wait-read failure never invoked Dial,
\* and every handler that returned has closed the client connection.
C12_DialOnceAfterAllSteps ==
    \A k \in Conns :
        LET c == conns[k] IN
        /\ c.dials <= 1
        /\ (c.pc = "dial" \/ Dialed(k)) =>
            /\ c.routed
            /\ c.holdRead = "none"
            /\ c.outcome \notin EarlyOutcomes
            /\ c.waited => c.waitEnd \in {"read", "timeout"}
            /\ ShouldWait(c.native, c.accepted) => c.waited
        /\ c.outcome \in EarlyOutcomes => (c.dials = 0 /\ c.closed)
        /\ c.waitEnd = "error" => (c.dials = 0 /\ c.closed /\ c.outcome = "waitRead")
        /\ c.pc = "returned" <=> c.closed

\* C12 witness: one handler returned on a failed wait read without a Dial, its
\* connection closed; another has dialed after its wait timed out.
C12_Witness ==
    \E k, j \in Conns :
        /\ conns[k].outcome = "waitRead" /\ conns[k].closed /\ conns[k].dials = 0
        /\ conns[j].dials = 1 /\ conns[j].waitEnd = "timeout"

\* C13: a handler in the hold has not routed, not dialed, not invoked the
\* TCPConnCloser and its client socket is open; when the hold's read returned a byte
\* or io.EOF the handler ended without the TCPConnCloser and without a handshake
\* failure; only another read error is reported as a failed handshake.
C13_HoldKeepsOpenQuietOnEOF ==
    \A k \in Conns :
        LET c == conns[k] IN
        /\ c.pc = "hold" =>
            (~c.closed /\ ~c.routed /\ c.dials = 0 /\ ~c.closerDone /\ c.holdRead = "none")
        /\ c.holdRead # "none" => (~c.routed /\ c.dials = 0 /\ c.pc = "returned")
        /\ c.holdRead \in {"byte", "EOF"} => (~c.closerDone /\ c.outcome = "hold")
        /\ c.holdRead = "error" => (c.closerDone /\ c.outcome = "handshake")
        /\ c.outcome = "hold" => c.holdRead \in {"byte", "EOF"}

\* C13 witness: the peer closed a held connection and the handler ended quietly.
C13_Witness ==
    \E k \in Conns :
        /\ conns[k].holdRead = "EOF"
        /\ conns[k].outcome = "hold"
        /\ ~conns[k].closerDone
        /\ conns[k].dials = 0

\* The handler of connection k is running.
Running(k) == conns[k].pc \in {"accepted", "hold", "wait", "dial", "relay"}

\* A step that closes the listener changes nothing else; once the listener is
\* closed no further connection is accepted.
StopStep ==
    /\ (listenerClosed' /\ ~listenerClosed) => (conns' = conns /\ acceptPc' = acceptPc)
    /\ listenerClosed => \A k \in Conns : conns[k].pc = "none" => conns'[k].pc = "none"

\* C14: Stop closes the listener and touches nothing else; after it the accept loop
\* can only observe the closed error and exit, and accepts no further connection;
\* the accept loop exits for no other reason; the sockets of running handlers stay
\* open and the handlers can still take their steps until they return by themselves.
C14_StopClosesOnlyListener ==
    /\ [][StopStep]_vars
    /\ [](acceptPc = "exited" => listenerClosed)
    /\ []((listenerClosed /\ acceptPc = "run") =>
            (ENABLED AcceptClosed /\ \A k \in Conns : ~ENABLED AcceptConn(k)))
    /\ [](\A k \in Conns : Running(k) => ~conns[k].closed)
    /\ [](\A k \in Conns : (listenerClosed /\ conns[k].pc = "relay") => ENABLED ConnRelayEnd(k))

\* C14 witness: the listener is closed and the accept loop has exited while one
\* handler is still relaying on an open socket and a connection was never accepted.
C14_Witness ==
    \E k, j \in Conns :
        /\ listenerClosed /\ acceptPc = "exited"
        /\ conns[k].pc = "relay" /\ ~conns[k].closed
        /\ conns[j].pc = "none"

\* ------------------------------------------------------------ credential manager

\* The frame of the credential manager's actions.
notCredVars == <<udpVars, tcpVars, targetVars>>

\* s.mu is not locked.
CredFree == <<"free", 0>>

\* s.mu is write-locked; the Lock was taken in the call of caller c.
CredHeld(c) == <<"held", c>>

\* A call begins: the caller is in no other call.
CanCall(c) ==
    /\ callers[c].pc \in {"idle", "returned"}
    /\ credCalls > 0

\* The call returns: its locals are gone.
Returned(r, res) ==
    [r EXCEPT !.pc = "returned", !.result = res, !.content = NoCall.content, !.old = NoCall.old,
              !.ucHash = NoCall.ucHash, !.linked = NoCall.linked]

\* The call of op with its arguments, about to take s.mu.
NewCall(op, u, k) == [NoCall EXCEPT !.op = op, !.user = u, !.psk = k, !.pc = "lock"]

\* GetCredential(username)
GetCredential(u) ==
    IF cachedCredMap[u].has
    THEN [name |-> u, uPSK |-> cachedCredMap[u].uPSK, ok |-> TRUE]
    ELSE [name |-> "", uPSK |-> ShortPsk, ok |-> FALSE]

\* Credentials()
Credentials == {[name |-> u, uPSK |-> cachedCredMap[u].uPSK] : u \in {x \in Usernames : cachedCredMap[x].has}}

\* AddCredential up to s.mu.Lock(): the checks of the username and of the key length.
AddBegin(c, u, k) ==
    /\ CanCall(c)
    /\ credCalls' = credCalls - 1
    /\ callers' = [callers EXCEPT ![c] =
            IF u = "" THEN Returned(NewCall("Add", u, k), "ErrEmptyUsername")
            ELSE IF PSKLen(k) # pskLength THEN Returned(NewCall("Add", u, k), "PSKLengthError")
            ELSE NewCall("Add", u, k)]
    /\ UNCHANGED <<file, cachedContent, cachedCredMap, cachedUserLookupMap, tcpULM, udpULM,
                   credMu, saveQueue, done, credWg, savePc, started, notCredVars>>

\* UpdateCredential up to s.mu.Lock(): the check of the key length.
UpdateBegin(c, u, k) ==
    /\ CanCall(c)
    /\ credCalls' = credCalls - 1
    /\ callers' = [callers EXCEPT ![c] =
            IF PSKLen(k) # pskLength THEN Returned(NewCall("Update", u, k), "PSKLengthError")
            ELSE NewCall("Update", u, k)]
    /\ UNCHANGED <<file, cachedContent, cachedCredMap, cachedUserLookupMap, tcpULM, udpULM,
                   credMu, saveQueue, done, credWg, savePc, started, notCredVars>>

\* DeleteCredential up to s.mu.Lock().
DeleteBegin(c, u) ==
    /\ CanCall(c)
    /\ credCalls' = credCalls - 1
    /\ callers' = [callers EXCEPT ![c] = NewCall("Delete", u, ShortPsk)]
    /\ UNCHANGED <<file, cachedContent, cachedCredMap, cachedUserLookupMap, tcpULM, udpULM,
                   credMu, saveQueue, done, credWg, savePc, started, notCredVars>>

\* Faulty variant: the error return leaves s.mu locked.
RejectKeepsLock == <<"held", 0>>

\* s.mu.Unlock() before a credential call returns an error.
RejectUnlock == CredFree

\* The uPSK's hash is in cachedUserLookupMap for another user.
HashTaken(u, k) ==
    /\ cachedUserLookupMap[PSKHash(k)].has
    /\ cachedUserLookupMap[PSKHash(k)].name # u

\* uc.uPSKHash = ss2022.PSKHash(uPSK) in UpdateCredential writes through the pointer
\* that s.cachedCredMap holds: every call whose uc is that credential reads the new
\* hash from then on.
Rehashed(user, h) ==
    [d \in Callers |->
        IF callers[d].linked /\ callers[d].user = user
        THEN [callers[d] EXCEPT !.ucHash = h]
        ELSE callers[d]]

\* The credentials of the users in us leave s.cachedCredMap (delete, or a new map
\* is installed): the calls that point to them keep the credential they have.
Unlinked(us) ==
    [d \in Callers |->
        IF callers[d].linked /\ callers[d].user \in us
        THEN [callers[d] EXCEPT !.linked = FALSE]
        ELSE callers[d]]

\* Faulty variant: the credential is handed to the live maps only, the cache
\* is left as it was.
AddCachedNothing(u, k) == cachedCredMap

\* s.cachedCredMap[username] = uc in AddCredential
AddCachedCred(u, k) == [cachedCredMap EXCEPT ![u] = CachedCred(k, PSKHash(k))]

\* AddCredential under s.mu: the user exists or the cipher config cannot be built
\* (cipherOk is false): unlock and return the error; otherwise store the
\* credential and the config in the cached maps and unlock.
AddLocked(c, cipherOk) ==
    LET r == callers[c] IN
    /\ r.op = "Add" /\ r.pc = "lock"
    /\ credMu = CredFree
    /\ IF cachedCredMap[r.user].has \/ ~cipherOk
       THEN /\ callers' = [callers EXCEPT ![c] =
                    Returned(r, IF cachedCredMap[r.user].has THEN "exists" ELSE "cipher")]
            /\ credMu' = RejectUnlock
            /\ UNCHANGED <<cachedCredMap, cachedUserLookupMap>>
       ELSE /\ cachedCredMap' = AddCachedCred(r.user, r.psk)
            /\ cachedUserLookupMap' =
                    [cachedUserLookupMap EXCEPT ![PSKHash(r.psk)] = CipherConfig(r.user, r.psk)]
            /\ callers' = [callers EXCEPT ![c] =
                    [r EXCEPT !.pc = "enqueue", !.dup = HashTaken(r.user, r.psk), !.touched = TRUE,
                              !.ucHash = PSKHash(r.psk), !.linked = TRUE]]
            /\ credMu' = CredFree
    /\ UNCHANGED <<file, cachedContent, tcpULM, udpULM, saveQueue, done, credWg, savePc,
                   started, credCalls, notCredVars>>

\* UpdateCredential under s.mu.
UpdateLocked(c, cipherOk) ==
    LET r == callers[c]
        uc == cachedCredMap[r.user]
    IN
    /\ r.op = "Update" /\ r.pc = "lock"
    /\ credMu = CredFree
    /\ IF ~uc.has \/ uc.uPSK = r.psk \/ ~cipherOk
       THEN /\ callers' = [callers EXCEPT ![c] =
                    Returned(r, IF ~uc.has THEN "ErrNonexistentUser"
                                ELSE IF uc.uPSK = r.psk THEN "same" ELSE "cipher")]
            /\ credMu' = RejectUnlock
            /\ UNCHANGED <<cachedCredMap, cachedUserLookupMap>>
       ELSE /\ cachedCredMap' = [cachedCredMap EXCEPT ![r.user] = CachedCred(r.psk, PSKHash(r.psk))]
            /\ cachedUserLookupMap' =
                    [[cachedUserLookupMap EXCEPT ![uc.uPSKHash] = NoConfig]
                        EXCEPT ![PSKHash(r.psk)] = CipherConfig(r.user, r.psk)]
            /\ callers' = [Rehashed(r.user, PSKHash(r.psk)) EXCEPT ![c] =
                    [r EXCEPT !.pc = "enqueue", !.dup = HashTaken(r.user, r.psk), !.touched = TRUE,
                              !.old = uc.uPSKHash, !.ucHash = PSKHash(r.psk), !.linked = TRUE]]
            /\ credMu' = CredFree
    /\ UNCHANGED <<file, cachedContent, tcpULM, udpULM, saveQueue, done, credWg, savePc,
                   started, credCalls, notCredVars>>

\* DeleteCredential under s.mu.
DeleteLocked(c) ==
    LET r == callers[c]
        uc == cachedCredMap[r.user]
    IN
    /\ r.op = "Delete" /\ r.pc = "lock"
    /\ credMu = CredFree
    /\ IF ~uc.has
       THEN /\ callers' = [callers EXCEPT ![c] = Returned(r, "ErrNonexistentUser")]
            /\ credMu' = RejectUnlock
            /\ UNCHANGED <<cachedCredMap, cachedUserLookupMap>>
       ELSE /\ cachedCredMap' = [cachedCredMap EXCEPT ![r.user] = NoCred]
            /\ cachedUserLookupMap' = [cachedUserLookupMap EXCEPT ![uc.uPSKHash] = NoConfig]
            /\ callers' = [Unlinked({r.user}) EXCEPT ![c] =
                    [r EXCEPT !.pc = "enqueue", !.touched = TRUE, !.ucHash = uc.uPSKHash]]
            /\ credMu' = CredFree
    /\ UNCHANGED <<file, cachedContent, tcpULM, udpULM, saveQueue, done, credWg, savePc,
                   started, credCalls, notCredVars>>

\* make(chan struct{}, 1): the capacity of s.saveQueue
saveQueueCapacity == 1

\* Faulty variant: no token is sent.
EnqueueNothing == saveQueue

\* Faulty variant: a token is added whatever the queue holds.
EnqueueBeyond == saveQueue + 1

\* s.enqueueSave(): a non-blocking send of a token.
EnqueueSave == IF saveQueue < saveQueueCapacity THEN saveQueue + 1 ELSE saveQueue

\* The call's s.enqueueSave().
Enqueue(c) ==
    /\ callers[c].pc = "enqueue"
    /\ saveQueue' = EnqueueSave
    /\ callers' = [callers EXCEPT ![c].pc = "tcp"]
    /\ UNCHANGED <<file, cachedContent, cachedCredMap, cachedUserLookupMap, tcpULM, udpULM,
                   credMu, done, credWg, savePc, started, credCalls, notCredVars>>

\* The function a call hands to updateProdULM, applied to a live map: c and
\* oldUPSKHash are values the closure holds, uc.uPSKHash is read when it runs.
ProdUpdate(r, ulm) ==
    IF r.op = "Add" THEN [ulm EXCEPT ![r.ucHash] = CipherConfig(r.user, r.psk)]
    ELSE IF r.op = "Update"
    THEN [[ulm EXCEPT ![r.old] = NoConfig] EXCEPT ![r.ucHash] = CipherConfig(r.user, r.psk)]
    ELSE [ulm EXCEPT ![r.ucHash] = NoConfig]

\* updateProdULM: s.tcp.UpdateUserLookupMap(f)
ProdTcp(c) ==
    /\ callers[c].pc = "tcp"
    /\ tcpULM' = ProdUpdate(callers[c], tcpULM)
    /\ callers' = [callers EXCEPT ![c].pc = "udp"]
    /\ UNCHANGED <<file, cachedContent, cachedCredMap, cachedUserLookupMap, udpULM,
                   credMu, saveQueue, done, credWg, savePc, started, credCalls, notCredVars>>

\* updateProdULM: s.udp.UpdateUserLookupMap(f); the call returns nil.
ProdUdp(c) ==
    /\ callers[c].pc = "udp"
    /\ udpULM' = ProdUpdate(callers[c], udpULM)
    /\ callers' = [callers EXCEPT ![c] = Returned(@, "ok")]
    /\ UNCHANGED <<file, cachedContent, cachedCredMap, cachedUserLookupMap, tcpULM,
                   credMu, saveQueue, done, credWg, savePc, started, credCalls, notCredVars>>

\* GetCredential: the read lock is taken, so s.mu is not write-locked.
GetCall(c, u) ==
    /\ CanCall(c)
    /\ credMu = CredFree
    /\ credCalls' = credCalls - 1
    /\ callers' = [callers EXCEPT ![c] =
            LET g == GetCredential(u) IN
            Returned(NewCall("Get", g.name, g.uPSK), IF g.ok THEN "ok" ELSE "missing")]
    /\ UNCHANGED <<file, cachedContent, cachedCredMap, cachedUserLookupMap, tcpULM, udpULM,
                   credMu, saveQueue, done, credWg, savePc, started, notCredVars>>

\* loadFromFile up to s.mu.Lock(): mmap.ReadFile.
LoadBegin(c) ==
    /\ CanCall(c)
    /\ credCalls' = credCalls - 1
    /\ callers' = [callers EXCEPT ![c] =
            IF file.kind = "unreadable"
            THEN Returned(NewCall("Load", "", ShortPsk), "read")
            ELSE [NewCall("Load", "", ShortPsk) EXCEPT !.content = file]]
    /\ UNCHANGED <<file, cachedContent, cachedCredMap, cachedUserLookupMap, tcpULM, udpULM,
                   credMu, saveQueue, done, credWg, savePc, started, notCredVars>>

\* The errors loadFromFile can return for a content it decodes entry by entry, in
\* the order the map iteration happens to take.
LoadErrors(content, cipherOk) ==
    IF content.kind = "undecodable" THEN {"decode"}
    ELSE (IF \E e \in content.creds : PSKLen(e[2]) # pskLength THEN {"PSKLengthError"} ELSE {})
         \cup (IF \E e, f \in content.creds : e # f /\ PSKHash(e[2]) = PSKHash(f[2])
               THEN {"duplicate"} ELSE {})
         \cup (IF ~cipherOk /\ content.creds # {} THEN {"cipher"} ELSE {})

\* credMap built by loadFromFile
LoadedCredMap(content) ==
    [u \in Usernames |->
        IF \E e \in content.creds : e[1] = u
        THEN LET e == CHOOSE x \in content.creds : x[1] = u
             IN  CachedCred(e[2], PSKHash(e[2]))
        ELSE NoCred]

\* userLookupMap built by loadFromFile
LoadedLookupMap(content) ==
    [h \in Hashes |->
        IF \E e \in content.creds : PSKHash(e[2]) = h
        THEN LET e == CHOOSE x \in content.creds : PSKHash(x[2]) = h
             IN  CipherConfig(e[1], e[2])
        ELSE NoConfig]

\* s.mu when loadFromFile returns nil because the content is unchanged: the
\* return at that point has no Unlock.
LoadSkipMu(c) == CredHeld(c)

\* s.mu when loadFromFile returns an error after s.mu.Lock(): these returns have
\* no Unlock.
LoadErrorMu(c) == CredHeld(c)

\* loadFromFile from s.mu.Lock() on.
LoadLocked(c, cipherOk) ==
    LET r == callers[c] IN
    /\ r.op = "Load" /\ r.pc = "lock"
    /\ credMu = CredFree
    /\ IF r.content = cachedContent
       THEN /\ credMu' = LoadSkipMu(c)
            /\ callers' = [callers EXCEPT ![c].pc = "replace"]
            /\ UNCHANGED <<cachedContent, cachedCredMap, cachedUserLookupMap>>
       ELSE IF LoadErrors(r.content, cipherOk) # {}
       THEN /\ credMu' = LoadErrorMu(c)
            /\ \E e \in LoadErrors(r.content, cipherOk) :
                    callers' = [callers EXCEPT ![c] = Returned(r, e)]
            /\ UNCHANGED <<cachedContent, cachedCredMap, cachedUserLookupMap>>
       ELSE /\ cachedContent' = r.content
            /\ cachedUserLookupMap' = LoadedLookupMap(r.content)
            /\ cachedCredMap' = LoadedCredMap(r.content)
            /\ credMu' = CredFree
            /\ callers' = [Unlinked(Usernames) EXCEPT ![c] =
                    [r EXCEPT !.pc = "replace", !.touched = TRUE]]
    /\ UNCHANGED <<file, tcpULM, udpULM, saveQueue, done, credWg, savePc, started,
                   credCalls, notCredVars>>

\* LoadFromFile after loadFromFile returned nil: s.replaceProdULM().
Replace(c) ==
    /\ callers[c].pc = "replace"
    /\ tcpULM' = cachedUserLookupMap
    /\ udpULM' = cachedUserLookupMap
    /\ callers' = [callers EXCEPT ![c] = Returned(@, "ok")]
    /\ UNCHANGED <<file, cachedContent, cachedCredMap, cachedUserLookupMap,
                   credMu, saveQueue, done, credWg, savePc, started, credCalls, notCredVars>>

\* ManagedServer.Start (Manager.Start): replaceProdULM, s.wg.Add(1), and the save
\* worker is spawned.
StartCall(c) ==
    /\ CanCall(c)
    /\ ~started
    /\ credCalls' = credCalls - 1
    /\ started' = TRUE
    /\ tcpULM' = cachedUserLookupMap
    /\ udpULM' = cachedUserLookupMap
    /\ credWg' = credWg + 1
    /\ savePc' = "wait"
    /\ callers' = [callers EXCEPT ![c] = Returned(NewCall("Start", "", ShortPsk), "ok")]
    /\ UNCHANGED <<file, cachedContent, cachedCredMap, cachedUserLookupMap,
                   credMu, saveQueue, done, notCredVars>>

\* close(s.done) when s.done is already closed: the runtime panics.
CloseClosedDone(r) == Returned(r, "panic")

\* ManagedServer.Stop (Manager.Stop): close(s.done).
StopBegin(c) ==
    /\ CanCall(c)
    /\ credCalls' = credCalls - 1
    /\ done' = TRUE
    /\ callers' = [callers EXCEPT ![c] =
            IF done THEN CloseClosedDone(NewCall("Stop", "", ShortPsk))
            ELSE [NewCall("Stop", "", ShortPsk) EXCEPT !.pc = "wait"]]
    /\ UNCHANGED <<file, cachedContent, cachedCredMap, cachedUserLookupMap, tcpULM, udpULM,
                   credMu, saveQueue, credWg, savePc, started, notCredVars>>

\* ManagedServer.Stop: s.wg.Wait() returns.
StopWaited(c) ==
    /\ callers[c].op = "Stop" /\ callers[c].pc = "wait"
    /\ credWg = 0
    /\ callers' = [callers EXCEPT ![c] = Returned(@, "ok")]
    /\ UNCHANGED <<file, cachedContent, cachedCredMap, cachedUserLookupMap, tcpULM, udpULM,
                   credMu, saveQueue, done, credWg, savePc, started, credCalls, notCredVars>>

\* dequeueSave, first select: a save token is received.
SaveTake ==
    /\ savePc = "wait"
    /\ saveQueue > 0
    /\ saveQueue' = saveQueue - 1
    /\ savePc' = "cooldown"
    /\ UNCHANGED <<file, cachedContent, cachedCredMap, cachedUserLookupMap, tcpULM, udpULM,
                   credMu, done, credWg, started, callers, credCalls, notCredVars>>

\* dequeueSave, first select: s.done is closed; the worker returns and the
\* goroutine calls s.wg.Done().
SaveExit ==
    /\ savePc = "wait"
    /\ done
    /\ savePc' = "exited"
    /\ credWg' = credWg - 1
    /\ UNCHANGED <<file, cachedContent, cachedCredMap, cachedUserLookupMap, tcpULM, udpULM,
                   credMu, saveQueue, done, started, callers, credCalls, notCredVars>>

\* dequeueSave, second select: the cooldown ends (the timer fires or s.done is closed).
SaveCooldown ==
    /\ savePc = "cooldown"
    /\ savePc' = "drain"
    /\ UNCHANGED <<file, cachedContent, cachedCredMap, cachedUserLookupMap, tcpULM, udpULM,
                   credMu, saveQueue, done, credWg, started, callers, credCalls, notCredVars>>

\* dequeueSave, third select: a token that arrived during the cooldown is removed.
SaveDrain ==
    /\ savePc = "drain"
    /\ saveQueue' = 0
    /\ savePc' = "write"
    /\ UNCHANGED <<file, cachedContent, cachedCredMap, cachedUserLookupMap, tcpULM, udpULM,
                   credMu, done, credWg, started, callers, credCalls, notCredVars>>

\* dequeueSave: s.mu.RLock(); saveToFile(); s.mu.RUnlock(). When os.WriteFile
\* fails (writeOk is false) nothing is written and cachedContent is kept.
SaveWrite(writeOk) ==
    /\ savePc = "write"
    /\ credMu = CredFree
    /\ IF writeOk
       THEN /\ file' = Marshal(cachedCredMap)
            /\ cachedContent' = Marshal(cachedCredMap)
       ELSE UNCHANGED <<file, cachedContent>>
    /\ savePc' = "wait"
    /\ UNCHANGED <<cachedCredMap, cachedUserLookupMap, tcpULM, udpULM,
                   credMu, saveQueue, done, credWg, started, callers, credCalls, notCredVars>>

\* The file is edited from outside the program (an event counted with the calls).
FileEdit(f) ==
    /\ file # f
    /\ credCalls > 0
    /\ credCalls' = credCalls - 1
    /\ file' = f
    /\ UNCHANGED <<cachedContent, cachedCredMap, cachedUserLookupMap, tcpULM, udpULM,
                   credMu, saveQueue, done, credWg, savePc, started, callers,
                   notCredVars>>

\* One caller's steps.
CredCall(c) ==
    \/ \E u \in Usernames, k \in AllPsks : AddBegin(c, u, k)
    \/ \E u \in Usernames, k \in AllPsks : UpdateBegin(c, u, k)
    \/ \E u \in Usernames : DeleteBegin(c, u)
    \/ \E cipherOk \in BOOLEAN : AddLocked(c, cipherOk)
    \/ \E cipherOk \in BOOLEAN : UpdateLocked(c, cipherOk)
    \/ DeleteLocked(c)
    \/ Enqueue(c)
    \/ ProdTcp(c)
    \/ ProdUdp(c)
    \/ \E u \in Usernames : GetCall(c, u)
    \/ LoadBegin(c)
    \/ \E cipherOk \in BOOLEAN : LoadLocked(c, cipherOk)
    \/ Replace(c)
    \/ StartCall(c)
    \/ StopBegin(c)
    \/ StopWaited(c)

\* The save worker's steps.
DequeueSave ==
    \/ SaveTake
    \/ SaveExit
    \/ SaveCooldown
    \/ SaveDrain
    \/ \E writeOk \in BOOLEAN : SaveWrite(writeOk)

NextCred ==
    \/ \E c \in Callers : CredCall(c)
    \/ DequeueSave
    \/ \E f \in FileEdits : FileEdit(f)

SpecCred == InitCred /\ [][NextCred]_vars

\* ------------------------------------------------- credential manager: claims

\* C15 as stated: a second Stop returns normally, without panic; here for the
\* credential Manager, whose Stop calls Stop of each ManagedServer.
C15_StopIdempotent ==
    \A c \in Callers : callers[c].op = "Stop" => callers[c].result # "panic"

\* The entries Credentials() returns for user u.
EntriesOf(u) == {e \in Credentials : e.name = u}

\* cachedCredMap changes only in the locked step of a call.
CacheChangesUnderLock ==
    cachedCredMap' # cachedCredMap =>
        \E c \in Callers : callers[c].pc = "lock" /\ callers'[c].pc \in {"enqueue", "replace"}

\* The locked step of a successful AddCredential(u, k) leaves the lock free and the
\* cache such that GetCredential(u) returns (u, k, true) and Credentials() has one
\* entry for u.
AddStoresStep ==
    \A c \in Callers :
        (callers[c].op = "Add" /\ callers[c].pc = "lock" /\ callers'[c].pc = "enqueue") =>
            LET u == callers[c].user
                k == callers[c].psk
            IN  /\ GetCredential(u)' = [name |-> u, uPSK |-> k, ok |-> TRUE]
                /\ Cardinality(EntriesOf(u)') = 1
                /\ credMu' = CredFree

\* C16: once AddCredential(u, k) has returned success, and no other caller has made
\* a call, GetCredential(u) returns (u, k, true) and Credentials() has exactly one
\* entry for u; the credential is in the cache from the call's locked step on, and
\* neither the save worker nor the rest of the call changes the cache.
C16_AddThenGet ==
    /\ [](\A c \in Callers :
            (/\ callers[c].op = "Add" /\ callers[c].pc = "returned" /\ callers[c].result = "ok"
             /\ \A d \in Callers \ {c} : callers[d].op = "none")
            => /\ GetCredential(callers[c].user) =
                    [name |-> callers[c].user, uPSK |-> callers[c].psk, ok |-> TRUE]
               /\ Cardinality(EntriesOf(callers[c].user)) = 1
               /\ credMu = CredFree)
    /\ [][AddStoresStep]_vars
    /\ [][CacheChangesUnderLock]_vars

\* C16 witness: AddCredential returned success and the GetCredential of the same
\* user made next returned that user's key.
C16_Witness ==
    \E c, d \in Callers :
        /\ callers[c].op = "Add" /\ callers[c].pc = "returned" /\ callers[c].result = "ok"
        /\ callers[d].op = "Get" /\ callers[d].result = "ok"
        /\ callers[d].user = callers[c].user
        /\ callers[d].psk = callers[c].psk
        /\ credCalls = 0

\* The users in cachedCredMap.
CachedUsers == {u \in Usernames : cachedCredMap[u].has}

\* C17 as stated: every user of cachedCredMap has its hash in cachedUserLookupMap with
\* a config of that user, and every key of cachedUserLookupMap is the hash of exactly
\* one user of cachedCredMap.
C17_CachedMapsConsistent ==
    /\ \A u \in CachedUsers :
        /\ cachedUserLookupMap[cachedCredMap[u].uPSKHash].has
        /\ cachedUserLookupMap[cachedCredMap[u].uPSKHash].name = u
    /\ \A h \in Hashes :
        cachedUserLookupMap[h].has =>
            Cardinality({u \in CachedUsers : cachedCredMap[u].uPSKHash = h}) = 1

\* C18 as stated: no two users share an identity hash, and no AddCredential or
\* UpdateCredential stores a key whose hash belongs to another user.
C18_NoSharedHash ==
    /\ \A u, v \in CachedUsers : u # v => cachedCredMap[u].uPSKHash # cachedCredMap[v].uPSKHash
    /\ \A c \in Callers : ~callers[c].dup

\* The errors of the credential calls.
RejectResults ==
    {"ErrEmptyUsername", "PSKLengthError", "exists", "ErrNonexistentUser", "same", "cipher"}

\* A credential call that returns an error in this step has changed nothing: the
\* cached maps, the live maps, the save queue and the file are as before, and the
\* lock is free if the call had taken it, as it was found otherwise.
RejectStep ==
    \A c \in Callers :
        (/\ callers'[c] # callers[c]
         /\ callers'[c].op \in {"Add", "Update", "Delete"}
         /\ callers'[c].pc = "returned"
         /\ callers'[c].result \in RejectResults)
        => /\ UNCHANGED <<cachedCredMap, cachedUserLookupMap, tcpULM, udpULM, saveQueue,
                          cachedContent, file>>
           /\ credMu' = credMu
           /\ callers[c].pc = "lock" => credMu' = CredFree

\* The locked step of a call that must be rejected returns the error.
MustRejectStep ==
    \A c \in Callers :
        LET r == callers[c] IN
        (r.pc = "lock" /\ callers'[c] # r) =>
            /\ (r.op = "Add" /\ cachedCredMap[r.user].has) => callers'[c].result = "exists"
            /\ (r.op \in {"Update", "Delete"} /\ ~cachedCredMap[r.user].has)
                    => callers'[c].result = "ErrNonexistentUser"
            /\ (r.op = "Update" /\ cachedCredMap[r.user].has /\ cachedCredMap[r.user].uPSK = r.psk)
                    => callers'[c].result = "same"

\* C19: a rejected AddCredential, UpdateCredential or DeleteCredential returns an
\* error and leaves the cached maps, both live maps and the save queue unchanged and
\* the lock released: an empty username and a wrong key length are rejected before
\* the lock is taken, an existing user (Add), a nonexistent user (Update, Delete)
\* and the same uPSK (Update) under the lock.
C19_RejectedCallLeavesNothing ==
    /\ [][RejectStep]_vars
    /\ [][MustRejectStep]_vars
    /\ [](\A c \in Callers :
            LET r == callers[c] IN
            /\ (r.op = "Add" /\ r.user = "") =>
                    (r.pc = "returned" /\ r.result = "ErrEmptyUsername")
            /\ (r.op = "Add" /\ r.user # "" /\ PSKLen(r.psk) # pskLength) =>
                    (r.pc = "returned" /\ r.result = "PSKLengthError")
            /\ (r.op = "Update" /\ PSKLen(r.psk) # pskLength) =>
                    (r.pc = "returned" /\ r.result = "PSKLengthError")
            /\ (r.op \in {"Add", "Update", "Delete"} /\ r.result \in RejectResults) => ~r.touched)

\* C19 witness: an UpdateCredential with the user's own uPSK and a DeleteCredential
\* of a nonexistent user were rejected; the lock is free and no save is queued.
C19_Witness ==
    \E c, d \in Callers :
        /\ callers[c].op = "Update" /\ callers[c].result = "same"
        /\ callers[d].op = "Delete" /\ callers[d].result = "ErrNonexistentUser"
        /\ credMu = CredFree
        /\ saveQueue = 0

\* C20 as stated: a LoadFromFile that returned an error has changed nothing and the
\* server remains usable: the lock the call took is not left held.
C20_FailedLoadLeavesUsable ==
    \A c \in Callers :
        (callers[c].op = "Load" /\ callers[c].pc = "returned" /\ callers[c].result # "ok")
        => (~callers[c].touched /\ credMu # CredHeld(c))

\* C21 as stated, for its part on completion: a LoadFromFile that found the file
\* content equal to cachedContent returns success with the lock released, and a
\* LoadFromFile of an unchanged file that waits for the lock finds it free (no other
\* call is inside a critical section), so each such call completes.
C21_ReloadUnchangedCompletes ==
    /\ \A c \in Callers :
        (/\ callers[c].op = "Load" /\ callers[c].pc = "returned"
         /\ callers[c].result = "ok" /\ ~callers[c].touched)
        => credMu # CredHeld(c)
    /\ \A c \in Callers :
        (callers[c].op = "Load" /\ callers[c].pc = "lock" /\ callers[c].content = cachedContent)
        => credMu = CredFree

\* Every entry of a live map associates a hash with a config built from a key of
\* that hash.
LiveEntriesMatch(ulm) == \A h \in Hashes : ulm[h].has => PSKHash(ulm[h].psk) = h

\* C22 as stated, for its part on entries: in each live CredStore map every entry
\* associates an identity hash h with a cipher config derived from a uPSK whose hash
\* is h, at every point of every interleaving of the credential calls.
C22_LiveEntriesMatchKey == LiveEntriesMatch(tcpULM) /\ LiveEntriesMatch(udpULM)

\* The change of the successful call r is in the live map ulm.
ChangeApplied(r, ulm) ==
    CASE r.op = "Add" -> ulm[PSKHash(r.psk)].has
      [] r.op = "Update" -> ulm[PSKHash(r.psk)].has /\ ~ulm[r.old].has
      [] r.op = "Delete" -> ~ulm[r.ucHash].has
      [] OTHER -> TRUE

\* A successful call's enqueueSave leaves a token in the queue, and each of its two
\* updates of a live map leaves its change in that map.
SuccessStep ==
    \A c \in Callers :
        /\ (callers[c].pc = "enqueue" /\ callers'[c].pc = "tcp") => saveQueue' > 0
        /\ (callers[c].pc = "tcp" /\ callers'[c].pc = "udp") => ChangeApplied(callers[c], tcpULM')
        /\ (callers[c].pc = "udp" /\ callers'[c].pc = "returned")
                => ChangeApplied(callers[c], udpULM')

\* C23 as stated: every successful AddCredential, UpdateCredential or
\* DeleteCredential has, before it returns, left a save token and applied its change
\* to both live maps: the hash of the new key is present after Add and Update, the
\* old hash absent after Update and Delete.
C23_SuccessLeavesTokenAndChange == [][SuccessStep]_vars

\* ------------------------------------------------- the save worker at work

\* The ManagedServer after RegisterServer loaded the file f and Start ran: the live
\* maps are clones of the cached lookup map and the save worker waits for a token.
CredRunning(n, f) ==
    /\ file = f
    /\ cachedContent = f
    /\ cachedCredMap = LoadedCredMap(f)
    /\ cachedUserLookupMap = LoadedLookupMap(f)
    /\ tcpULM = LoadedLookupMap(f)
    /\ udpULM = LoadedLookupMap(f)
    /\ credMu = CredFree
    /\ saveQueue = 0
    /\ done = FALSE
    /\ credWg = 1
    /\ savePc = "wait"
    /\ started = TRUE
    /\ callers = [c \in Callers |-> NoCall]
    /\ credCalls = n

\* The mutations made while the save worker is watched: as many as there are callers,
\* so that two of them can overlap each other and every step of the worker.
SaveCalls == Cardinality(Callers)

InitSave == UDPInit(0) /\ TCPQuiet /\ CredRunning(SaveCalls, Content("object", "indent", {<<"a", 1>>})) /\ TargetQuiet

\* One caller's steps in AddCredential, UpdateCredential and DeleteCredential.
MutationCall(c) ==
    \/ \E u \in Usernames, k \in AllPsks : AddBegin(c, u, k)
    \/ \E u \in Usernames, k \in AllPsks : UpdateBegin(c, u, k)
    \/ \E u \in Usernames : DeleteBegin(c, u)
    \/ \E cipherOk \in BOOLEAN : AddLocked(c, cipherOk)
    \/ \E cipherOk \in BOOLEAN : UpdateLocked(c, cipherOk)
    \/ DeleteLocked(c)
    \/ Enqueue(c)
    \/ ProdTcp(c)
    \/ ProdUdp(c)

\* The save worker's steps while the server runs and os.WriteFile succeeds.
SaveWorker ==
    \/ SaveTake
    \/ SaveCooldown
    \/ SaveDrain
    \/ SaveWrite(TRUE)

\* The running server under credential mutations: no Stop, no reload, no edit of
\* the file from outside, file writes succeed.
NextSave ==
    \/ \E c \in Callers : MutationCall(c)
    \/ SaveWorker

\* A call that has begun runs to its return, and the save worker goroutine keeps
\* running: the token is received, the cooldown timer fires, the read lock is
\* acquired once no writer holds s.mu.
SaveFairness ==
    /\ \A c \in Callers :
        /\ WF_vars(\E cipherOk \in BOOLEAN : AddLocked(c, cipherOk))
        /\ WF_vars(\E cipherOk \in BOOLEAN : UpdateLocked(c, cipherOk))
        /\ WF_vars(DeleteLocked(c))
        /\ WF_vars(Enqueue(c))
        /\ WF_vars(ProdTcp(c))
        /\ WF_vars(ProdUdp(c))
    /\ WF_vars(SaveTake)
    /\ WF_vars(SaveCooldown)
    /\ WF_vars(SaveDrain)
    /\ WF_vars(SaveWrite(TRUE))

SpecSave == InitSave /\ [][NextSave]_vars /\ SaveFairness

\* The username -> uPSK map the file decodes to is the one of cachedCredMap.
FileMatchesCache == file.kind = "object" /\ file.creds = Marshal(cachedCredMap).creds

\* C24: on a running server whose file writes succeed, whenever the file does not
\* decode to cachedCredMap it later does, and the save worker finally rests (waiting,
\* no token left) with a file that decodes to cachedCredMap: after the last
\* successful mutation the file is written with the final credentials, whatever the
\* timing of the mutations relative to the worker's dequeue, cooldown, drain and
\* write.
C24_LastMutationSaved ==
    /\ <>[](FileMatchesCache /\ savePc = "wait" /\ saveQueue = 0)
    /\ ~FileMatchesCache ~> FileMatchesCache

\* C24 witness: both callers made a successful mutation, the second one's token came
\* while the worker was past its dequeue, and the worker rests with a file that holds
\* the final credentials, which are not those the file started with.
C24_Witness ==
    /\ \A c \in Callers :
        /\ callers[c].op \in {"Add", "Update", "Delete"}
        /\ callers[c].pc = "returned" /\ callers[c].result = "ok"
    /\ FileMatchesCache
    /\ file.creds # {<<"a", 1>>}
    /\ savePc = "wait" /\ saveQueue = 0

\* No credential call is in progress.
Quiescent == \A c \in Callers : callers[c].pc \in {"idle", "returned"}

\* The live map ulm has the hashes of cachedUserLookupMap, for the same users.
SameUsers(ulm) ==
    \A h \in Hashes :
        /\ ulm[h].has = cachedUserLookupMap[h].has
        /\ ulm[h].has => ulm[h].name = cachedUserLookupMap[h].name

\* C25 as stated: whenever no credential call is in progress on a started server, the
\* TCP map, the UDP map and cachedUserLookupMap hold the same identity hashes for the
\* same users.
C25_QuiescentMapsAgree == (started /\ Quiescent) => (SameUsers(tcpULM) /\ SameUsers(udpULM))

\* The rules of the credential file: a JSON object whose usernames are not empty,
\* whose uPSKs have pskLength bytes, and in which no two users have one hash.
WellFormed(content) ==
    /\ content.kind = "object"
    /\ \A e \in content.creds : e[1] # "" /\ PSKLen(e[2]) = pskLength
    /\ \A e, f \in content.creds : e # f => PSKHash(e[2]) # PSKHash(f[2])

\* C26 as stated: LoadFromFile installs a file's credentials only if the file follows
\* every rule of the format: a file with an empty username, a uPSK of another length
\* or two users of one hash is rejected, and nothing of it is installed.
C26_LoadRejectsBadFiles ==
    /\ \A c \in Callers :
        (callers[c].op = "Load" /\ callers[c].pc = "replace" /\ callers[c].touched)
        => WellFormed(callers[c].content)
    /\ \A c \in Callers :
        (callers[c].op = "Load" /\ callers[c].pc = "returned" /\ callers[c].result # "ok")
        => ~callers[c].touched

\* ------------------------------------------------- UDP sessions of roaming clients

InitAddr == UDPInitFrom(AddrPkts, RoamSources) /\ TCPQuiet /\ CredQuiet /\ TargetQuiet

\* The relay, not stopped, with clients whose address and control bytes change from
\* one datagram to the next.
SpecAddr == InitAddr /\ [][NextRun]_vars

\* The receive loop's iteration ends in the hit path's unpack failure: the session
\* found keeps its client address and cached control bytes, its channel and its table
\* entry, and its workers are where they were.
HitUnpackFailStep ==
    (recvPc = "lock" /\ recvResult' = "HitUnpackInPlace") =>
        /\ table[recvCsid] # NoSession
        /\ clientAddrPort' = clientAddrPort
        /\ clientOobCache' = clientOobCache
        /\ natConnSendCh' = natConnSendCh
        /\ table' = table
        /\ UNCHANGED <<chClosed, natConnClosed, deadline, downPc, upPc>>
        /\ mu' = Free

\* The upstream worker takes a packet and does not write it (PackInPlace, the target
\* address or the write failed): that packet alone leaves the channel, its buffer
\* goes back to the pool, and the session and the worker are as before.
UpFailStep ==
    \A s \in Sessions :
        (/\ upPc[s] = "recv"
         /\ Len(natConnSendCh'[s]) < Len(natConnSendCh[s])
         /\ written'[s] = written[s])
        => /\ natConnSendCh'[s] = Tail(natConnSendCh[s])
           /\ puts'[Head(natConnSendCh[s])] = puts[Head(natConnSendCh[s])] + 1
           /\ upPc'[s] = "recv"
           /\ table' = table
           /\ UNCHANGED <<chClosed, natConnClosed, deadline, clientAddrPort, clientOobCache>>

\* C27: an UnpackInPlace failure on the hit path leaves the session's clientAddrPort
\* and clientOobCache unchanged, enqueues nothing and keeps the table entry; a
\* failure in the upstream worker drops that packet only, and the worker takes the
\* next queued packet.
C27_FailureLeavesSession ==
    /\ [][HitUnpackFailStep]_vars
    /\ [][UpFailStep]_vars
    /\ [](\A s \in Sessions :
            (upPc[s] = "recv" /\ natConnSendCh[s] # <<>>) => ENABLED UpHandle(s, "written"))

\* C27 witness: a datagram of an existing session came from another address with
\* other control bytes than the session has, and its unpack failed.
C27_Witness ==
    /\ recvResult = "HitUnpackInPlace"
    /\ table[recvCsid] # NoSession
    /\ recvFrom.addr # clientAddrPort[table[recvCsid]]
    /\ recvFrom.oob # clientOobCache[table[recvCsid]]
    /\ natConnSendCh[table[recvCsid]] # <<>>

\* ------------------------------------------------- TCP relay: the wait buffer

\* The wait buffer has been made and the handler is in the wait's read.
InWait(k) == conns[k].pc = "wait"

\* C28 as stated: the wait buffer is frontHeadroom + max(MinPayloadBufferSizePerRead,
\* 1280) + rearHeadroom bytes long, never shorter than frontHeadroom + 1280 +
\* rearHeadroom.
C28_BufferAtLeastDefault ==
    \A k \in Conns :
        InWait(k) =>
            /\ BytesLen(conns[k].payload) =
                    framing.front + Max(framing.minBuf, initialPayloadWaitBufferSize) + framing.rear
            /\ BytesLen(conns[k].payload) >=
                    framing.front + initialPayloadWaitBufferSize + framing.rear

\* C28 amended: the payload size of the wait buffer is MinPayloadBufferSizePerRead
\* when the framing reports a value other than zero, and 1280 when it reports zero;
\* the buffer is frontHeadroom + that size + rearHeadroom bytes long.
C28_BufferSizeByFraming ==
    \A k \in Conns :
        InWait(k) =>
            /\ framing.minBuf # 0 =>
                BytesLen(conns[k].payload) = framing.front + framing.minBuf + framing.rear
            /\ framing.minBuf = 0 =>
                BytesLen(conns[k].payload) =
                    framing.front + initialPayloadWaitBufferSize + framing.rear

\* C28 witness: a handler waits with a buffer made for a framing whose minimum is
\* below 1280 and not zero.
C28_Witness ==
    \E k \in Conns :
        /\ InWait(k)
        /\ framing.minBuf # 0
        /\ framing.minBuf < initialPayloadWaitBufferSize
        /\ BytesLen(conns[k].payload) < initialPayloadWaitBufferSize

\* C29: when the wait's read returned n bytes, Dial is called with exactly those
\* bytes (the n bytes of the client's stream that follow what Accept consumed, no
\* headroom bytes before or after them), and the read deadline is cleared when Dial
\* is called and while the relay runs.
C29_ReadBytesDialed ==
    \A k \in Conns :
        /\ (Dialed(k) /\ conns[k].waitEnd = "read") =>
            /\ conns[k].dialed.zb = 0
            /\ conns[k].dialed.za = 0
            /\ Len(conns[k].dialed.data) \in 1..MaxPayload
            /\ conns[k].dialed.data =
                    StreamBytes(Len(conns[k].accepted.data), Len(conns[k].dialed.data))
        /\ conns[k].pc \in {"dial", "relay"} => conns[k].readDeadline = "none"
        /\ (conns[k].pc = "dial" /\ conns[k].waitEnd = "read") =>
            /\ BytesLen(conns[k].payload) = Len(conns[k].payload.data)
            /\ Len(conns[k].payload.data) \in 1..MaxPayload

\* C29 witness: a framing with headroom, the wait read as many bytes as one read can
\* return, and Dial was called and succeeded.
C29_Witness ==
    \E k \in Conns :
        /\ conns[k].pc = "relay"
        /\ conns[k].waitEnd = "read"
        /\ framing.front > 0 /\ framing.rear > 0
        /\ Len(conns[k].dialed.data) = MaxPayload

\* ------------------------------------------------- UDP relay: eviction

\* C30 as stated: a downstream worker leaves its loop, and so removes its session
\* from the table, only on a read-deadline timeout of the outbound socket.
C30_EvictedOnlyByTimeout ==
    \A s \in Sessions :
        downPc[s] \in {"lock", "delete", "done"} => downExit[s] = "deadline"

\* An entry leaves the table in the downstream worker's delete, after the worker left
\* its loop on a read-deadline timeout or, serverConn being closed, on net.ErrClosed.
RemovalStep ==
    \A c \in CSIDs :
        (table[c] # NoSession /\ table'[c] = NoSession) =>
            LET s == table[c] IN
            /\ downPc[s] = "delete" /\ downPc'[s] = "done"
            /\ \/ downExit[s] = "deadline"
               \/ downExit[s] = "closed" /\ serverConnClosed

\* The read deadline of an outbound socket is set when the session is created, set
\* again by Stop, and gone when the socket is closed: no other step changes it.
DeadlineStep ==
    \A s \in Sessions :
        deadline'[s] # deadline[s] =>
            \/ /\ nsess' = s /\ nsess = s - 1
               /\ deadline[s] = "unset" /\ deadline'[s] = "natTimeout"
            \/ stopPc = "sweep" /\ stopPc' = "wait" /\ deadline'[s] = "now"
            \/ natConnClosed'[s] /\ deadline'[s] = "unset"

\* C30 amended: a session is removed from the table only by its downstream worker,
\* after the worker left its loop on a read-deadline timeout of the outbound socket
\* or, once Stop closed serverConn, on net.ErrClosed from a write to serverConn; while
\* serverConn is open the timeout is the only way out. The deadline is set at
\* session creation and changed by no packet in either direction, only by Stop.
C30_EvictedByTimeoutOrShutdown ==
    /\ [][RemovalStep]_vars
    /\ [][DeadlineStep]_vars
    /\ [](\A s \in Sessions : downExit[s] = "closed" => serverConnClosed)
    /\ [](\A s \in Sessions :
            (downPc[s] \in {"lock", "delete", "done"} /\ ~serverConnClosed)
            => downExit[s] = "deadline")

\* C30 witness: a session that had traffic was removed by its downstream worker,
\* which left its loop on net.ErrClosed before Stop had set the deadline anew.
C30_Witness ==
    \E s \in Sessions :
        /\ downPc[s] = "done"
        /\ downExit[s] = "closed"
        /\ table[sessCsid[s]] = NoSession
        /\ deadline[s] = "natTimeout"
        /\ taken[s] # NoPkt
\* ------------------------------------------------------------ C31

\* The relay, not stopped, with clients that change address, at the grain of NextRace.
SpecRace == InitAddr /\ [][NextRace]_vars

\* The hit path completes for a datagram that was unpacked.
HitDoneStep == recvPc = "store" /\ recvPc' = "get"

\* The downstream worker of session s writes a reply.
ReplyStep(s) == downPc[s] = "run" /\ replyTo' # replyTo /\ replyTo'.sess = s

\* The source of the datagram of session s that was unpacked last: the address being
\* stored, or else the one stored.
LatestSource(s) == IF Storing(s) THEN {clientAddrPort[s], recvFrom.addr} ELSE {clientAddrPort[s]}

\* C31: once a datagram of an existing session is unpacked, the session's
\* clientAddrPort is the source of that datagram, also when the packet is dropped on a
\* full channel; and every reply the downstream worker writes is addressed to the
\* source of the client datagram unpacked last (while that address is being stored, to
\* it or to the one before it).
C31_RepliesToLatestSource ==
    [][/\ HitDoneStep => clientAddrPort'[table[recvCsid]] = recvFrom.addr
       /\ \A s \in Sessions :
            ReplyStep(s) => /\ replyTo'.ip = replyTo'.port
                            /\ replyTo'.ip \in LatestSource(s)]_vars

\* ------------------------------------------------------------ C32

\* The upstream worker handles a packet.
TargetStep == targetQueue' # targetQueue

\* The packet handled went to WriteToUDPAddrPort.
Sending(snt) == snt.outcome \in {"written", "writeErr"}

\* With a fixed target every packet that is packed goes to it, unresolved.
FixedTargetStep ==
    /\ resolutions' = 0
    /\ sent'.outcome # "resolveErr"
    /\ Sending(sent') => sent'.to = natConnFixedTargetAddrPort

\* A dropped packet leaves the cache as it was.
DropKeepsCache ==
    ~Sending(sent') => UNCHANGED <<cachedTargetAddr, cachedTargetAddrPort>>

\* C32 as stated: with a fixed target every packet is written to it and nothing is
\* resolved; otherwise every packet is written to what resolving its own target
\* address yields, and dropped when that fails, as if each packet were resolved;
\* a dropped packet does not change the cache.
C32_CacheTransparent ==
    [][TargetStep =>
        /\ natConnUseFixedTargetAddrPort => FixedTargetStep
        /\ ~natConnUseFixedTargetAddrPort =>
              /\ Sending(sent') => sent'.to = ResolveTarget(Head(targetQueue))
              /\ ResolveTarget(Head(targetQueue)) = NoAddr => ~Sending(sent')
        /\ DropKeepsCache]_vars

\* C32, amended: with a fixed target every packet is written to it and nothing is
\* resolved; otherwise a packet whose target is the one cached is written to what the
\* worker's last resolution of that target returned, without a new resolution, and any
\* other packet is written to what resolving its target yields now, or dropped when
\* that fails; a dropped packet does not change the cache.
C32_CacheReusesLastResolution ==
    [][TargetStep =>
        /\ natConnUseFixedTargetAddrPort => FixedTargetStep
        /\ ~natConnUseFixedTargetAddrPort =>
              LET target == Head(targetQueue) IN
              IF target = cachedTargetAddr
              THEN /\ resolutions' = resolutions
                   /\ sent'.outcome # "resolveErr"
                   /\ Sending(sent') => sent'.to = resolvedAs[target]
              ELSE /\ Sending(sent') => sent'.to = ResolveTarget(target)
                   /\ ResolveTarget(target) = NoAddr => ~Sending(sent')
        /\ DropKeepsCache]_vars

\* A packet was written, without a resolution, to an address its domain name no
\* longer resolves to.
C32_Witness ==
    /\ ~natConnUseFixedTargetAddrPort
    /\ sent.outcome = "written"
    /\ sent.target.domain
    /\ sent.to # dns[sent.target.id]
    /\ resolutions = 1
    /\ Len(targetQueue) = MaxTargets - 2

\* ------------------------------------------------------------ C33

\* The save worker clears the queue after the cooldown.
DrainStep == savePc = "drain" /\ savePc' = "write"

\* The save worker writes the file and goes back to wait for a token.
WriteStep == savePc = "write" /\ savePc' = "wait"

\* C33: enqueueSave never blocks and the save queue never holds more than one token;
\* the tokens of all mutations made between the worker's taking a token and its
\* drain after the cooldown are gone after the drain, so that the one write that
\* follows covers them; and that write stores cachedCredMap as it is when the worker
\* holds the reader lock, no writer being inside.
C33_DebounceCollapses ==
    /\ [](saveQueue <= saveQueueCapacity)
    /\ [](\A c \in Callers : callers[c].pc = "enqueue" => ENABLED Enqueue(c))
    /\ [][/\ DrainStep => saveQueue' = 0
          /\ WriteStep => /\ credMu = CredFree
                          /\ file' = Marshal(cachedCredMap)
                          /\ cachedCredMap' = cachedCredMap]_vars

\* C33 witness: two mutations sent their tokens, one of them while the worker was
\* between taking a token and the drain; the queue is empty and the worker is about to
\* write, once, credentials the file does not hold yet.
C33_Witness ==
    /\ savePc = "write"
    /\ saveQueue = 0
    /\ \A c \in Callers : callers[c].pc = "tcp"
    /\ ~FileMatchesCache

\* ------------------------------------------------------------ C34

\* loadFromFile has returned to the LoadFromFile call of caller c.
LoadReturned(c) == callers[c].op = "Load" /\ callers[c].pc \in {"replace", "returned"}

\* C34: whatever way loadFromFile returned (success, unchanged content, decode error,
\* PSK length error, duplicate hash, cipher error), the writer lock it took is
\* released; so a call that waits for s.mu, and the save worker about to write, find
\* the lock free when no call is inside a critical section.
C34_LockNeverLeftHeld ==
    /\ \A c \in Callers : LoadReturned(c) => credMu # CredHeld(c)
    /\ ((\E c \in Callers : callers[c].pc = "lock") \/ savePc = "write") => credMu = CredFree

\* ------------------------------------------------------------ C35

\* The receive loop has taken s.mu and its lookup of the datagram's csid returned a
\* session.
LookupFound == recvPc = "lock" /\ mu = Free /\ table[recvCsid] # NoSession

\* C35: the receive loop never sends on a closed channel: a session its lookup
\* returns has its send channel open, whatever the interleaving with the teardown of
\* downstream workers, and a session that was torn down is no longer found.
C35_NoSendOnClosedChannel ==
    /\ "send on closed channel" \notin faults
    /\ LookupFound => ~chClosed[table[recvCsid]]
    /\ \A s \in Sessions : (chClosed[s] /\ mu # ByDown(s)) => ~InTable(s)

\* C35 witness: a datagram of a session was read while the downstream worker of that
\* session is in its teardown, the channel closed and the entry not yet deleted; the
\* receive loop waits for the lock.
C35_Witness ==
    /\ recvPc = "lock"
    /\ table[recvCsid] # NoSession
    /\ mu = ByDown(table[recvCsid])
    /\ chClosed[table[recvCsid]]

\* ------------------------------------------------------------ C36

\* C36: every socket the miss path opened has an owner that closes it: none is open
\* outside a session (a miss path that fails after ListenUDP has closed its socket
\* before it drops the packet), and the socket of a session is closed once the
\* upstream worker of the session has ended.
C36_SocketOwnedOrClosed ==
    /\ unowned = 0
    /\ \A s \in Created : upPc[s] \in {"done", "exited"} => natConnClosed[s]

\* ------------------------------------------------------------ C37

\* The downstream worker of session s executes delete(s.table, csid).
TeardownDeleteStep(s) == downPc[s] = "delete" /\ downPc'[s] = "done"

\* The downstream worker of session s is in its loop or in its teardown.
DownRunning(s) == downPc[s] \in {"run", "lock", "delete"}

\* C37: when a downstream worker executes delete(s.table, csid) the entry of csid is
\* the session the worker was started for, however the receive loop interleaves; and
\* no two sessions of one csid have a running downstream worker at the same time.
C37_TeardownDeletesOwnSession ==
    /\ [][\A s \in Sessions : TeardownDeleteStep(s) => table[sessCsid[s]] = s]_vars
    /\ [](\A s1, s2 \in Sessions :
            (s1 # s2 /\ DownRunning(s1) /\ DownRunning(s2)) => sessCsid[s1] # sessCsid[s2])

\* C37 witness: a second session was created for the csid of a session whose worker
\* has deleted its entry and not yet returned; the second session's worker is about
\* to delete the entry, which is its own.
C37_Witness ==
    \E s1, s2 \in Sessions :
        /\ s1 # s2
        /\ sessCsid[s1] = sessCsid[s2] /\ sessCsid[s1] \in CSIDs
        /\ downPc[s1] = "done"
        /\ downPc[s2] = "delete"
        /\ table[sessCsid[s2]] = s2

\* ------------------------------------------------------------ C38

\* No call is in progress.
AllReturned == \A c \in Callers : callers[c].pc \in {"idle", "returned"}

\* ManagedServer.Stop is called, once, after the mutations made so far have returned.
StopAfterMutations(c) == ~done /\ AllReturned /\ StopBegin(c)

\* The running server under credential mutations, then stopped: mutations begin
\* before Stop is called, file writes succeed, nothing else touches the file.
NextStop ==
    \/ \E c \in Callers : ~done /\ MutationCall(c)
    \/ SaveWorker
    \/ SaveExit
    \/ \E c \in Callers : StopAfterMutations(c)
    \/ \E c \in Callers : StopWaited(c)

SpecStop == InitSave /\ [][NextStop]_vars

\* Stop has returned to caller c.
StopReturned(c) == callers[c].op = "Stop" /\ callers[c].pc = "returned"

\* C38: Stop does not lose pending saves: when Stop returns, the file holds the
\* credentials of cachedCredMap, with every mutation that completed before Stop was
\* called, whichever step of the save worker the stop interrupted.
C38_StopSavesPending ==
    \A c \in Callers : StopReturned(c) => FileMatchesCache

=============================================================================
